---- MODULE Spec2Model ----
(***************************************************************************)
(* Connector abstraction and integration layer of the construction-hub     *)
(* integration gateway: the connector family (Kafka, RabbitMQ, ActiveMQ,   *)
(* CRM, PM, Custom), the operation log, and the banking integration        *)
(* module that sits on top of a connector.                                 *)
(*                                                                         *)
(* Python values are encoded as follows.  None is the number 0 for a       *)
(* handle or a timestamp.  A transport handle (producer, consumer,         *)
(* connection, channel, plugin instance) is an index into `handles`.      *)
(* A dict is a TLA+ function whose DOMAIN is the set of keys present.      *)
(* An exception raised inside a try block is the branch of the operator    *)
(* that models the except clause.                                          *)
(***************************************************************************)
EXTENDS Integers, Sequences, FiniteSets, TLC

\* ---------------------------------------------------------------- bounds
\* number of public calls made on one connector instance in a behaviour
MaxCalls == 3
\* largest batch a broker poll / fetch loop / plugin hands back
MaxMsgs == 2

VARIABLES
    conn,         \* the connector instance: its class and its fields
    plugin_class, \* the methods of the class found at config['plugin_path']
    handles,      \* every transport handle / plugin instance ever opened
    log,          \* the Operation Log, in append order
    ret,          \* the last public call: operation, arguments, result, calls made
    calls,        \* number of public calls made so far (also the utcnow() clock)
    bank          \* the last BankingIntegrationModule call and what it did

vars == <<conn, plugin_class, handles, log, ret, calls, bank>>

Kinds == {"Kafka", "RabbitMQ", "ActiveMQ", "CRM", "PM", "Custom"}
Brokers == {"Kafka", "RabbitMQ", "ActiveMQ"}

\* Python's None where a string is expected: a config value set to None,
\* and what dict.get gives for a missing key
PyNone == "<None>"

\* ------------------------------------------------------------ dict helpers
Get(d, k, default) == IF k \in DOMAIN d THEN d[k] ELSE default

\* Python truthiness of a config value: '' and None are falsy
Truthy(v) == v \notin {"", PyNone}

EmptyDict == [k \in {} |-> ""]

RECURSIVE SeqSum(_)
SeqSum(s) == IF s = <<>> THEN 0 ELSE Head(s) + SeqSum(Tail(s))

\* ------------------------------------------------------- configurations
RequiredFields(kind) ==
    CASE kind = "Kafka"    -> <<"host", "port", "messaging_type", "consumer_group">>
      [] kind = "RabbitMQ" -> <<"host", "port", "messaging_type", "username", "password">>
      [] kind = "ActiveMQ" -> <<"host", "port", "messaging_type">>
      [] kind = "CRM"      -> <<"crm_type", "api_url", "api_key">>
      [] kind = "PM"       -> <<"pm_type", "api_url", "api_key">>
      [] kind = "Custom"   -> <<"plugin_path", "plugin_class">>

FieldSet(kind) == {RequiredFields(kind)[i] : i \in 1..Len(RequiredFields(kind))}

\* the configurations a connector is constructed with in this model: every
\* required field set, none set, and (CRM / PM) a vendor tag that is not a string
FullConfig(kind) == [f \in FieldSet(kind) |-> "v"]

VendorKey(kind) == IF kind = "CRM" THEN "crm_type" ELSE "pm_type"

Configs(kind) ==
    {FullConfig(kind), EmptyDict}
    \cup (IF kind \in {"CRM", "PM"}
          THEN {[FullConfig(kind) EXCEPT ![VendorKey(kind)] = PyNone]}
          ELSE {})
    \cup (IF kind = "Custom"
          THEN {[FullConfig(kind) EXCEPT !["plugin_class"] = ""]}
          ELSE {})

\* the optional capability set a plugin class may offer
PluginMethods == {"initialize", "cleanup", "test_connection", "sync_data", "send_data"}

\* the public methods of PluginTemplate
PluginTemplate == PluginMethods \cup {"get_metadata"}

\* the plugin classes of this model: the full template, one without
\* sync_data, one without initialize / cleanup, and one with no method
PluginClasses ==
    {PluginTemplate, {"initialize", "cleanup", "send_data"},
     {"test_connection", "sync_data", "send_data"}, {}}

\* ---------------------------------------------------------- construction
\* BaseConnector.__init__ and the subclass constructors
NewConnector(kind, config) ==
    [kind            |-> kind,
     config          |-> config,
     is_connected    |-> FALSE,
     last_sync       |-> 0,
     producer        |-> 0,
     consumer        |-> 0,
     connection      |-> 0,
     channel         |-> 0,
     plugin_module   |-> FALSE,
     plugin_instance |-> 0,
     custom_handlers |-> EmptyDict,
     vendor          |-> Get(config, VendorKey(kind), "generic")]

\* ------------------------------------------------------ the call in flight
\* A public operation is evaluated over a world w: the connector, the
\* handles, the log, and the trace of transport / plugin calls it has made.
World(c, h, l) == [conn |-> c, handles |-> h, log |-> l, trace |-> <<>>, now |-> calls + 1]

Ret(w, r) == [w |-> w, r |-> r]

\* BaseConnector.log_operation
LogOperation(w, operation, status) ==
    [w EXCEPT !.log = Append(@, [operation |-> operation, status |-> status])]

\* one transport or plugin call made by the operation, and whether it returned
Ev(w, what, ok) == [w EXCEPT !.trace = Append(@, [what |-> what, ok |-> ok])]

\* the same for a call whose argument matters: the topic subscribed to, the
\* timeout polled with, the queue read, the destination published to
EvArg(w, what, arg, ok) ==
    [w EXCEPT !.trace = Append(@, [what |-> what, ok |-> ok, arg |-> arg])]

\* a constructor of the transport library returned a new handle
\* (`on` is the connection a channel was opened on, 0 for any other handle)
Open(w, what, live, on) ==
    [w EXCEPT !.handles = Append(@, [what |-> what, live |-> live, closes |-> 0, on |-> on])]

NewId(w) == Len(w.handles) + 1

\* close() / disconnect() / cleanup() was called on handle h; when it returns
\* the handle is closed, when it raises the handle stays as it was
Close(w, h, ok) ==
    [w EXCEPT !.handles[h].closes = @ + 1,
              !.handles[h].live = IF ok THEN FALSE ELSE @]

Live(w, h) == h # 0 /\ w.handles[h].live

SetConn(w, field, value) == [w EXCEPT !.conn[field] = value]

ErrorResult == [status |-> "error", message |-> "exception"]
SyncError == [status |-> "error", message |-> "exception", data |-> <<>>]

\* the batch of n records a transport returned
Batch(n) == [i \in 1..n |-> i]

\* Python's len() of a list or a dict
PyLen(v) == Cardinality(DOMAIN v)

\* isinstance(result['data'], dict): a list and a dict are both functions
\* here, so a result whose data is a dict says so in data_is_dict
DataIsDict(result) == Get(result, "data_is_dict", FALSE)

\* dict.copy() followed by dict.update(more)
Merge(d, more) ==
    [k \in DOMAIN d \cup DOMAIN more |-> IF k \in DOMAIN more THEN more[k] ELSE d[k]]

\* d[k] = v
Put(d, k, v) == [j \in DOMAIN d \cup {k} |-> IF j = k THEN v ELSE d[j]]


\* ------------------------------------------------------------ environment
\* where a connect attempt fails: nowhere, before any handle is opened
\* (import error, missing config key), in the first constructor, in the
\* second step, or (plugin) initialize() returning a falsy value
ConnectFails(kind) ==
    CASE kind = "Kafka"    -> {"none", "early", "first", "second"}
      [] kind = "RabbitMQ" -> {"none", "early", "first", "second"}
      [] kind = "ActiveMQ" -> {"none", "early", "second"}
      [] kind = "Custom"   -> {"none", "first", "second", "refused"}
      [] OTHER             -> {"none"}

\* where a disconnect fails: the first or the second close raises
DisconnectFails(kind) ==
    CASE kind = "Kafka"  -> {"none", "first", "second"}
      [] kind \in {"RabbitMQ", "ActiveMQ", "Custom"} -> {"none", "first"}
      [] OTHER -> {"none"}

\* where the protocol part of sync_data / send_data fails: the first
\* transport call (subscribe, queue_declare), or the operation itself
OpFails(kind) ==
    CASE kind \in {"Kafka", "RabbitMQ"} -> {"none", "first", "second"}
      [] kind \in {"ActiveMQ", "Custom"} -> {"none", "second"}
      [] OTHER -> {"none"}

\* what a plugin method returns: a dict with a 'data' list, a dict whose
\* 'data' is itself a dict, a dict whose 'data' has no len() (a JSON
\* number or null), a dict without 'data', or a bare list
PluginShapes == {"dict_list", "dict_dict", "dict_unsized", "dict_nodata", "list"}

DataTypes(kind) ==
    CASE kind = "CRM" -> {"customers", "orders"}
      [] kind = "PM"  -> {"projects", "orders"}
      [] OTHER        -> {"orders"}

\* filters: absent or empty (both falsy), naming the source, naming the
\* source and a limit, or naming only a limit
FilterSets(kind) ==
    CASE kind = "Kafka" ->
             {EmptyDict, [topic |-> "t1"], [topic |-> "t1", timeout |-> 100],
              [timeout |-> 100]}
      [] kind = "RabbitMQ" ->
             {EmptyDict, [queue |-> "t1"], [queue |-> "t1", max_messages |-> 1],
              [max_messages |-> 1]}
      [] OTHER             -> {EmptyDict}

\* defaults of the bounded poll / fetch
DefaultTimeoutMs == 5000
DefaultMaxMessages == 10


\* ------------------------------------------------------------------ Kafka
\* KafkaConnector.connect
KafkaConnect(w, fail) ==
    IF fail = "early" \/ ~({"host", "port"} \subseteq DOMAIN w.conn.config)
    THEN Ret(LogOperation(Ev(w, "import", FALSE), "connect", "error"), FALSE)
    ELSE IF fail = "first"
    THEN Ret(LogOperation(Ev(w, "KafkaProducer", FALSE), "connect", "error"), FALSE)
    ELSE
      LET w1 == SetConn(Open(Ev(w, "KafkaProducer", TRUE), "producer", TRUE, 0),
                        "producer", NewId(w))
      IN IF fail = "second"
         THEN Ret(LogOperation(Ev(w1, "KafkaConsumer", FALSE), "connect", "error"), FALSE)
         ELSE
           LET w2 == SetConn(Open(Ev(w1, "KafkaConsumer", TRUE), "consumer", TRUE, 0),
                             "consumer", NewId(w1))
           IN Ret(LogOperation(SetConn(w2, "is_connected", TRUE), "connect", "success"), TRUE)

\* KafkaConnector.disconnect
KafkaDisconnect(w, fail) ==
    LET p == w.conn.producer
        c == w.conn.consumer
        pRaises == p # 0 /\ fail = "first"
        w1 == IF p # 0 THEN Close(Ev(w, "producer.close", ~pRaises), p, ~pRaises) ELSE w
        cRaises == c # 0 /\ fail = "second"
        w2 == IF c # 0 THEN Close(Ev(w1, "consumer.close", ~cRaises), c, ~cRaises) ELSE w1
    IN IF pRaises THEN Ret(LogOperation(w1, "disconnect", "error"), FALSE)
       ELSE IF cRaises THEN Ret(LogOperation(w2, "disconnect", "error"), FALSE)
       ELSE Ret(LogOperation(SetConn(w2, "is_connected", FALSE), "disconnect", "success"), TRUE)

\* topic = filters.get('topic') if filters else data_type
KafkaTopic(data_type, filters) ==
    IF filters # EmptyDict THEN Get(filters, "topic", PyNone) ELSE data_type

\* timeout_ms = filters.get('timeout', 5000) if filters else 5000
KafkaTimeout(filters) ==
    IF filters # EmptyDict THEN Get(filters, "timeout", DefaultTimeoutMs) ELSE DefaultTimeoutMs

\* KafkaConnector.sync_data
KafkaSyncData(w, data_type, filters, x) ==
    LET w0 == IF ~w.conn.is_connected
              THEN LET k == KafkaConnect(w, x.cfail) IN Ev(k.w, "connect", k.r)
              ELSE w
        topic == KafkaTopic(data_type, filters)
        c == w0.conn.consumer
        failed(v) == Ret(LogOperation(v, "sync_data", "error"), SyncError)
    IN IF c = 0 THEN failed(w0)
       ELSE IF ~Live(w0, c) \/ topic = PyNone \/ x.fail = "first"
       THEN failed(EvArg(w0, "subscribe", topic, FALSE))
       ELSE IF x.fail = "second"
       THEN failed(EvArg(EvArg(w0, "subscribe", topic, TRUE),
                         "poll", KafkaTimeout(filters), FALSE))
       ELSE
         LET w1 == EvArg(EvArg(w0, "subscribe", topic, TRUE),
                         "poll", KafkaTimeout(filters), TRUE)
             w2 == SetConn(w1, "last_sync", w1.now)
         IN Ret(LogOperation(w2, "sync_data", "success"),
                [status |-> "success",
                 data |-> [i \in 1..Len(x.data) |-> [topic |-> topic, value |-> x.data[i]]],
                 count |-> Len(x.data),
                 topic |-> topic])

\* KafkaConnector.send_data
KafkaSendData(w, data, data_type, x) ==
    LET w0 == IF ~w.conn.is_connected
              THEN LET k == KafkaConnect(w, x.cfail) IN Ev(k.w, "connect", k.r)
              ELSE w
        topic == Get(data, "topic", data_type)
        p == w0.conn.producer
        failed(v) == Ret(LogOperation(v, "send_data", "error"), ErrorResult)
    IN IF p = 0 THEN failed(w0)
       ELSE IF ~Live(w0, p) \/ x.fail # "none"
       THEN failed(EvArg(w0, "publish", topic, FALSE))
       ELSE Ret(LogOperation(EvArg(w0, "publish", topic, TRUE), "send_data", "success"),
                [status |-> "success", message |-> "Message sent successfully",
                 details |-> [topic |-> topic, partition |-> 0, offset |-> 0]])

\* KafkaConnector.test_connection
KafkaTestConnection(w, x) ==
    LET w0 == IF ~w.conn.is_connected
              THEN LET k == KafkaConnect(w, x.cfail) IN Ev(k.w, "connect", k.r)
              ELSE w
        p == w0.conn.producer
    IN IF p = 0 THEN Ret(w0, ErrorResult)
       ELSE IF ~Live(w0, p) \/ x.fail # "none"
       THEN Ret(Ev(w0, "partitions_for", FALSE), ErrorResult)
       ELSE Ret(Ev(w0, "partitions_for", TRUE),
                [status |-> "success", message |-> "Kafka connection test successful"])


\* --------------------------------------------------------------- RabbitMQ
\* RabbitMQConnector.connect
RabbitConnect(w, fail) ==
    IF fail = "early" \/ ~({"host", "port"} \subseteq DOMAIN w.conn.config)
    THEN Ret(LogOperation(Ev(w, "import", FALSE), "connect", "error"), FALSE)
    ELSE IF fail = "first"
    THEN Ret(LogOperation(Ev(w, "BlockingConnection", FALSE), "connect", "error"), FALSE)
    ELSE
      LET w1 == SetConn(Open(Ev(w, "BlockingConnection", TRUE), "connection", TRUE, 0),
                        "connection", NewId(w))
      IN IF fail = "second"
         THEN Ret(LogOperation(Ev(w1, "connection.channel", FALSE), "connect", "error"), FALSE)
         ELSE
           LET w2 == SetConn(Open(Ev(w1, "connection.channel", TRUE), "channel", TRUE, w1.conn.connection),
                             "channel", NewId(w1))
           IN Ret(LogOperation(SetConn(w2, "is_connected", TRUE), "connect", "success"), TRUE)

\* the channels opened on connection h and still open: pika closes them
\* when the connection is closed
ChannelsOf(w, h) ==
    {i \in 1..Len(w.handles) : w.handles[i].live /\ w.handles[i].on = h}

\* RabbitMQConnector.disconnect
RabbitDisconnect(w, fail) ==
    LET h == w.conn.connection
        closing == h # 0 /\ w.handles[h].live
        raises == closing /\ fail = "first"
        w1 == IF closing THEN Close(Ev(w, "connection.close", ~raises), h, ~raises) ELSE w
        w2 == IF closing /\ ~raises
              THEN [w1 EXCEPT !.handles =
                       [i \in 1..Len(w1.handles) |->
                           IF i \in ChannelsOf(w1, h)
                           THEN [w1.handles[i] EXCEPT !.live = FALSE, !.closes = @ + 1]
                           ELSE w1.handles[i]]]
              ELSE w1
    IN IF raises THEN Ret(LogOperation(w1, "disconnect", "error"), FALSE)
       ELSE Ret(LogOperation(SetConn(w2, "is_connected", FALSE), "disconnect", "success"), TRUE)

\* queue = filters.get('queue') if filters else data_type
RabbitQueue(data_type, filters) ==
    IF filters # EmptyDict THEN Get(filters, "queue", PyNone) ELSE data_type

\* max_messages = filters.get('max_messages', 10) if filters else 10
RabbitMaxMessages(filters) ==
    IF filters # EmptyDict THEN Get(filters, "max_messages", DefaultMaxMessages)
    ELSE DefaultMaxMessages

Min(a, b) == IF a < b THEN a ELSE b

\* the for-loop of RabbitMQConnector.sync_data over a queue holding n
\* messages: one basic_get per message fetched, and one more that comes
\* back empty when the queue runs dry before max_messages
\* the loop as it would be without the break at the first empty fetch
RECURSIVE FetchLoop_NoBreak(_, _, _, _)
FetchLoop_NoBreak(w, queue, left, n) ==
    IF left = 0 THEN w
    ELSE FetchLoop_NoBreak(EvArg(w, "basic_get", queue, TRUE), queue, left - 1,
                           IF n = 0 THEN 0 ELSE n - 1)

RECURSIVE FetchLoop(_, _, _, _)
FetchLoop(w, queue, left, n) ==
    IF left = 0 THEN w
    ELSE IF n = 0 THEN EvArg(w, "basic_get", queue, TRUE)
    ELSE FetchLoop(EvArg(w, "basic_get", queue, TRUE), queue, left - 1, n - 1)

\* RabbitMQConnector.sync_data
RabbitSyncData(w, data_type, filters, x) ==
    LET w0 == IF ~w.conn.is_connected
              THEN LET k == RabbitConnect(w, x.cfail) IN Ev(k.w, "connect", k.r)
              ELSE w
        queue == RabbitQueue(data_type, filters)
        max_messages == RabbitMaxMessages(filters)
        ch == w0.conn.channel
        failed(v) == Ret(LogOperation(v, "sync_data", "error"), SyncError)
    IN IF ch = 0 THEN failed(w0)
       ELSE IF ~Live(w0, ch) \/ queue = PyNone \/ x.fail = "first"
       THEN failed(EvArg(w0, "queue_declare", queue, FALSE))
       ELSE IF x.fail = "second"
       THEN failed(EvArg(EvArg(w0, "queue_declare", queue, TRUE),
                         "basic_get", queue, FALSE))
       ELSE
         LET got == Min(Len(x.data), max_messages)
             w1 == FetchLoop(EvArg(w0, "queue_declare", queue, TRUE), queue,
                             max_messages, Len(x.data))
             w2 == SetConn(w1, "last_sync", w1.now)
         IN Ret(LogOperation(w2, "sync_data", "success"),
                [status |-> "success",
                 data |-> [i \in 1..got |-> [message |-> x.data[i]]],
                 count |-> got, queue |-> queue])

\* RabbitMQConnector.send_data: the name pika is bound only inside connect,
\* so building the BasicProperties argument raises NameError before
\* basic_publish is called
RabbitSendData(w, data, data_type, x) ==
    LET w0 == IF ~w.conn.is_connected
              THEN LET k == RabbitConnect(w, x.cfail) IN Ev(k.w, "connect", k.r)
              ELSE w
        ch == w0.conn.channel
        queue == Get(data, "queue", data_type)
        failed(v) == Ret(LogOperation(v, "send_data", "error"), ErrorResult)
    IN IF ch = 0 THEN failed(w0)
       ELSE IF ~Live(w0, ch) \/ x.fail = "first"
       THEN failed(EvArg(w0, "queue_declare", queue, FALSE))
       ELSE failed(EvArg(w0, "queue_declare", queue, TRUE))

\* RabbitMQConnector.test_connection
RabbitTestConnection(w, x) ==
    LET w0 == IF ~w.conn.is_connected
              THEN LET k == RabbitConnect(w, x.cfail) IN Ev(k.w, "connect", k.r)
              ELSE w
        ch == w0.conn.channel
    IN IF ch = 0 THEN Ret(w0, ErrorResult)
       ELSE IF ~Live(w0, ch) \/ x.fail # "none"
       THEN Ret(Ev(w0, "queue_declare", FALSE), ErrorResult)
       ELSE Ret(Ev(w0, "queue_declare", TRUE),
                [status |-> "success", message |-> "RabbitMQ connection test successful"])

\* --------------------------------------------------------------- ActiveMQ
\* ActiveMQConnector.connect
ActiveConnect(w, fail) ==
    IF fail = "early" \/ ~({"host", "port"} \subseteq DOMAIN w.conn.config)
    THEN Ret(LogOperation(Ev(w, "import", FALSE), "connect", "error"), FALSE)
    ELSE
      LET w1 == SetConn(Open(Ev(w, "stomp.Connection", TRUE), "connection", FALSE, 0),
                        "connection", NewId(w))
      IN IF fail = "second"
         THEN Ret(LogOperation(Ev(w1, "connection.connect", FALSE), "connect", "error"), FALSE)
         ELSE
           LET w2 == [Ev(w1, "connection.connect", TRUE)
                         EXCEPT !.handles[w1.conn.connection].live = TRUE]
           IN Ret(LogOperation(SetConn(w2, "is_connected", TRUE), "connect", "success"), TRUE)

\* ActiveMQConnector.disconnect
ActiveDisconnect(w, fail) ==
    LET h == w.conn.connection
        closing == h # 0 /\ w.handles[h].live
        raises == closing /\ fail = "first"
        w1 == IF closing THEN Close(Ev(w, "connection.disconnect", ~raises), h, ~raises) ELSE w
    IN IF raises THEN Ret(LogOperation(w1, "disconnect", "error"), FALSE)
       ELSE Ret(LogOperation(SetConn(w1, "is_connected", FALSE), "disconnect", "success"), TRUE)

\* ActiveMQConnector.sync_data
ActiveSyncData(w, data_type, filters, x) ==
    LET w0 == IF ~w.conn.is_connected
              THEN LET k == ActiveConnect(w, x.cfail) IN Ev(k.w, "connect", k.r)
              ELSE w
        w1 == SetConn(w0, "last_sync", w0.now)
    IN Ret(LogOperation(w1, "sync_data", "success"),
           [status |-> "success", message |-> "ActiveMQ sync requires listener setup",
            data |-> <<>>, count |-> 0])

\* ActiveMQConnector.send_data
ActiveSendData(w, data, data_type, x) ==
    LET w0 == IF ~w.conn.is_connected
              THEN LET k == ActiveConnect(w, x.cfail) IN Ev(k.w, "connect", k.r)
              ELSE w
        destination == Get(data, "destination", "/queue/" \o data_type)
        h == w0.conn.connection
        failed(v) == Ret(LogOperation(v, "send_data", "error"), ErrorResult)
    IN IF h = 0 THEN failed(w0)
       ELSE IF ~Live(w0, h) \/ x.fail # "none"
       THEN failed(EvArg(w0, "publish", destination, FALSE))
       ELSE Ret(LogOperation(EvArg(w0, "publish", destination, TRUE),
                             "send_data", "success"),
                [status |-> "success", message |-> "Message sent successfully",
                 details |-> [destination |-> destination]])

\* ActiveMQConnector.test_connection
ActiveTestConnection(w, x) ==
    LET w0 == IF ~w.conn.is_connected
              THEN LET k == ActiveConnect(w, x.cfail) IN Ev(k.w, "connect", k.r)
              ELSE w
    IN Ret(w0, [status |-> "success", message |-> "ActiveMQ connection test successful"])


\* --------------------------------------------------------------- CRM / PM
\* CRMConnector.connect, ProjectManagementConnector.connect (with the
\* _connect_<vendor> helpers, which all do the same)
VendorConnect(w) ==
    IF w.conn.vendor = PyNone
    THEN Ret(LogOperation(Ev(w, "vendor.lower", FALSE), "connect", "error"), FALSE)
    ELSE Ret(LogOperation(SetConn(w, "is_connected", TRUE), "connect", "success"), TRUE)

\* CRMConnector.disconnect, ProjectManagementConnector.disconnect
VendorDisconnect(w) ==
    Ret(LogOperation(SetConn(w, "is_connected", FALSE), "disconnect", "success"), TRUE)

\* _get_mock_crm_data / _get_mock_pm_data: one record for a known type
MockData(kind, data_type) ==
    IF (kind = "CRM" /\ data_type \in {"customers", "leads"})
       \/ (kind = "PM" /\ data_type \in {"projects", "tasks"})
    THEN Batch(1) ELSE <<>>

\* CRMConnector.sync_data, ProjectManagementConnector.sync_data
VendorSyncData(w, data_type, filters, x) ==
    LET w0 == IF ~w.conn.is_connected
              THEN LET k == VendorConnect(w) IN Ev(k.w, "connect", k.r)
              ELSE w
        mock_data == MockData(w.conn.kind, data_type)
        w1 == SetConn(w0, "last_sync", w0.now)
    IN Ret(LogOperation(w1, "sync_data", "success"),
           [status |-> "success", data |-> mock_data, count |-> Len(mock_data)])

\* CRMConnector.send_data, ProjectManagementConnector.send_data
VendorSendData(w, data, data_type, x) ==
    LET w0 == IF ~w.conn.is_connected
              THEN LET k == VendorConnect(w) IN Ev(k.w, "connect", k.r)
              ELSE w
    IN Ret(LogOperation(w0, "send_data", "success"),
           [status |-> "success", message |-> "Data sent successfully"])

\* CRMConnector.test_connection, ProjectManagementConnector.test_connection
VendorTestConnection(w, x) ==
    LET w0 == IF ~w.conn.is_connected
              THEN LET k == VendorConnect(w) IN Ev(k.w, "connect", k.r)
              ELSE w
    IN Ret(w0, [status |-> "success", message |-> "connection test successful"])

\* ----------------------------------------------------------------- Custom
\* CustomConnector.connect (with _validate_plugin_class, which accepts any
\* class); `cls` is the set of methods of the class at plugin_path
CustomConnect(w, cls, fail) ==
    IF ~Truthy(Get(w.conn.config, "plugin_path", PyNone))
       \/ ~Truthy(Get(w.conn.config, "plugin_class", PyNone))
    THEN Ret(LogOperation(w, "connect", "error"), FALSE)
    ELSE
      LET w1 == SetConn(Ev(w, "exec_module", TRUE), "plugin_module", TRUE)
      IN IF fail = "first"
         THEN Ret(LogOperation(Ev(w1, "plugin_cls", FALSE), "connect", "error"), FALSE)
         ELSE
           LET w2 == SetConn(Open(Ev(w1, "plugin_cls", TRUE), "plugin", FALSE, 0),
                             "plugin_instance", NewId(w1))
           IN IF "initialize" \in cls /\ fail \in {"second", "refused"}
              THEN Ret(LogOperation(Ev(w2, "initialize", fail = "refused"),
                                    "connect", "error"), FALSE)
              ELSE
                LET w3 == IF "initialize" \in cls THEN Ev(w2, "initialize", TRUE) ELSE w2
                    w4 == [w3 EXCEPT !.handles[w2.conn.plugin_instance].live = TRUE]
                IN Ret(LogOperation(SetConn(w4, "is_connected", TRUE),
                                    "connect", "success"), TRUE)

\* CustomConnector.disconnect
CustomDisconnect(w, cls, fail) ==
    LET h == w.conn.plugin_instance
        cleaning == h # 0 /\ "cleanup" \in cls
        raises == cleaning /\ fail = "first"
        w1 == IF cleaning THEN Close(Ev(w, "cleanup", ~raises), h, ~raises) ELSE w
        w2 == SetConn(SetConn(SetConn(w1, "plugin_instance", 0),
                              "plugin_module", FALSE), "is_connected", FALSE)
    IN IF raises THEN Ret(LogOperation(w1, "disconnect", "error"), FALSE)
       ELSE Ret(LogOperation(w2, "disconnect", "success"), TRUE)

\* CustomEnsure as a retrying loader would do it: a failed connect is
\* attempted a second time
CustomEnsure_Retry(w, cls, x) ==
    IF ~w.conn.is_connected \/ w.conn.plugin_instance = 0
    THEN LET k == CustomConnect(w, cls, x.cfail)
             w1 == Ev(k.w, "connect", k.r)
         IN IF k.r THEN w1
            ELSE LET k2 == CustomConnect(w1, cls, x.cfail) IN Ev(k2.w, "connect", k2.r)
    ELSE w

\* the implicit connect of the plugin operations
CustomEnsure(w, cls, x) ==
    IF ~w.conn.is_connected \/ w.conn.plugin_instance = 0
    THEN LET k == CustomConnect(w, cls, x.cfail) IN Ev(k.w, "connect", k.r)
    ELSE w

\* hasattr as it would be if only the presence of a plugin instance were
\* looked at
HasAttr_AnyInstance(w, cls, name) == w.conn.plugin_instance # 0

\* hasattr(self.plugin_instance, name)
HasAttr(w, cls, name) == w.conn.plugin_instance # 0 /\ name \in cls

\* CustomConnector.sync_data
CustomSyncData(w, cls, data_type, filters, x) ==
    LET w0 == CustomEnsure(w, cls, x)
        failed(v) == Ret(LogOperation(v, "sync_data", "error"), SyncError)
    IN IF ~HasAttr(w0, cls, "sync_data")
       THEN Ret(w0, [status |-> "error",
                     message |-> "Plugin does not implement sync_data method",
                     data |-> <<>>])
       ELSE IF x.fail # "none"
       THEN failed(Ev(w0, "plugin.sync_data", FALSE))
       ELSE
         LET w1 == Ev(w0, "plugin.sync_data", TRUE)
             w2 == LogOperation(SetConn(w1, "last_sync", w1.now), "sync_data", "success")
         IN CASE x.shape = "dict_list" ->
                   Ret(w2, [status |-> "success", data |-> x.data, count |-> PyLen(x.data)])
              [] x.shape = "dict_dict" ->
                   Ret(w2, [status |-> "success", data |-> x.dict, count |-> PyLen(x.dict),
                            data_is_dict |-> TRUE])
              [] x.shape = "dict_unsized" -> failed(w2)
              [] x.shape = "dict_nodata" ->
                   Ret(w2, [status |-> "success", data |-> <<>>, count |-> 0])
              [] x.shape = "list" ->
                   Ret(w2, [status |-> "success", data |-> x.data, count |-> 0])

\* CustomConnector.send_data as it would be if a plugin that raised were
\* unloaded
CustomSendData_UnloadOnError(w, cls, data, data_type, x) ==
    LET w0 == CustomEnsure(w, cls, x)
    IN IF ~HasAttr(w0, cls, "send_data")
       THEN Ret(w0, [status |-> "error",
                     message |-> "Plugin does not implement send_data method"])
       ELSE IF x.fail # "none"
       THEN Ret(LogOperation(SetConn(SetConn(Ev(w0, "plugin.send_data", FALSE),
                                             "plugin_instance", 0),
                                     "is_connected", FALSE),
                             "send_data", "error"), ErrorResult)
       ELSE Ret(LogOperation(Ev(w0, "plugin.send_data", TRUE), "send_data", "success"),
                [status |-> "success", message |-> "Data sent via custom plugin"])

\* CustomConnector.send_data
CustomSendData(w, cls, data, data_type, x) ==
    LET w0 == CustomEnsure(w, cls, x)
    IN IF ~HasAttr(w0, cls, "send_data")
       THEN Ret(w0, [status |-> "error",
                     message |-> "Plugin does not implement send_data method"])
       ELSE IF x.fail # "none"
       THEN Ret(LogOperation(Ev(w0, "plugin.send_data", FALSE), "send_data", "error"),
                ErrorResult)
       ELSE Ret(LogOperation(Ev(w0, "plugin.send_data", TRUE), "send_data", "success"),
                [status |-> "success", message |-> "Data sent via custom plugin"])

\* CustomConnector.test_connection
CustomTestConnection(w, cls, x) ==
    LET w0 == IF ~w.conn.is_connected
              THEN LET k == CustomConnect(w, cls, x.cfail) IN Ev(k.w, "connect", k.r)
              ELSE w
    IN IF w0.conn.plugin_instance = 0
       THEN Ret(w0, [status |-> "error", message |-> "Plugin not loaded"])
       ELSE IF "test_connection" \in cls
       THEN IF x.fail # "none"
            THEN Ret(Ev(w0, "plugin.test_connection", FALSE), ErrorResult)
            ELSE Ret(Ev(w0, "plugin.test_connection", TRUE),
                     [status |-> "success",
                      message |-> "Custom plugin connection test completed"])
       ELSE Ret(w0, [status |-> "success",
                     message |-> "Custom plugin loaded (no test method available)"])

\* method(*args, **kwargs) as it would be if only the positional arguments
\* were passed on
Call_PositionalOnly(args, kwargs) == [args |-> args, kwargs |-> EmptyDict]

\* method(*args, **kwargs): what the plugin method is called with
Call(args, kwargs) == [args |-> args, kwargs |-> kwargs]

\* what a plugin method returns: a value that tells the method and what it
\* was called with
MethodReturn(method_name, call) == [by |-> method_name, given |-> call]

\* CustomConnector.execute_custom_method
execute_custom_method(w, cls, method_name, args, kwargs, x) ==
    LET w0 == CustomEnsure(w, cls, x)
    IN IF ~HasAttr(w0, cls, method_name)
       THEN Ret(w0, [status |-> "error",
                     message |-> "Plugin does not implement method: " \o method_name])
       ELSE IF x.fail # "none"
       THEN Ret(LogOperation(EvArg(w0, "plugin." \o method_name, Call(args, kwargs), FALSE),
                             "execute_custom_method", "error"), ErrorResult)
       ELSE Ret(LogOperation(EvArg(w0, "plugin." \o method_name, Call(args, kwargs), TRUE),
                             "execute_custom_method", "success"),
                [status |-> "success",
                 message |-> "Custom method " \o method_name \o " executed successfully",
                 result |-> MethodReturn(method_name, Call(args, kwargs))])

\* what a call without a return statement returns
NoResult == [returned |-> PyNone]

\* register_custom_handler as it would be if the first handler registered
\* for an event were kept
register_custom_handler_KeepFirst(w, event_type, handler_func) ==
    Ret(LogOperation(
            SetConn(w, "custom_handlers",
                    IF event_type \in DOMAIN w.conn.custom_handlers
                    THEN w.conn.custom_handlers
                    ELSE Put(w.conn.custom_handlers, event_type, handler_func)),
            "register_handler", "success"), NoResult)

\* CustomConnector.register_custom_handler
register_custom_handler(w, event_type, handler_func) ==
    Ret(LogOperation(
            SetConn(w, "custom_handlers",
                    Put(w.conn.custom_handlers, event_type, handler_func)),
            "register_handler", "success"), NoResult)

\* CustomConnector.trigger_custom_event
trigger_custom_event(w, event_type, event_data, x) ==
    IF event_type \notin DOMAIN w.conn.custom_handlers
    THEN Ret(w, [status |-> "error",
                 message |-> "No handler registered for event: " \o event_type])
    ELSE LET handler == w.conn.custom_handlers[event_type]
         IN IF x.fail # "none"
            THEN Ret(LogOperation(EvArg(w, handler, event_data, FALSE),
                                  "trigger_event", "error"), ErrorResult)
            ELSE Ret(LogOperation(EvArg(w, handler, event_data, TRUE),
                                  "trigger_event", "success"),
                     [status |-> "success",
                      message |-> "Event " \o event_type \o " triggered successfully",
                      result |-> x.value])

\* -------------------------------------------------- the capability contract
\* connect() of the connector's class
DoConnect(w, cls, fail) ==
    CASE w.conn.kind = "Kafka"    -> KafkaConnect(w, fail)
      [] w.conn.kind = "RabbitMQ" -> RabbitConnect(w, fail)
      [] w.conn.kind = "ActiveMQ" -> ActiveConnect(w, fail)
      [] w.conn.kind = "Custom"   -> CustomConnect(w, cls, fail)
      [] OTHER                    -> VendorConnect(w)

\* disconnect() of the connector's class
DoDisconnect(w, cls, fail) ==
    CASE w.conn.kind = "Kafka"    -> KafkaDisconnect(w, fail)
      [] w.conn.kind = "RabbitMQ" -> RabbitDisconnect(w, fail)
      [] w.conn.kind = "ActiveMQ" -> ActiveDisconnect(w, fail)
      [] w.conn.kind = "Custom"   -> CustomDisconnect(w, cls, fail)
      [] OTHER                    -> VendorDisconnect(w)

\* sync_data(data_type, filters) of the connector's class
DoSyncData(w, cls, data_type, filters, x) ==
    CASE w.conn.kind = "Kafka"    -> KafkaSyncData(w, data_type, filters, x)
      [] w.conn.kind = "RabbitMQ" -> RabbitSyncData(w, data_type, filters, x)
      [] w.conn.kind = "ActiveMQ" -> ActiveSyncData(w, data_type, filters, x)
      [] w.conn.kind = "Custom"   -> CustomSyncData(w, cls, data_type, filters, x)
      [] OTHER                    -> VendorSyncData(w, data_type, filters, x)

\* send_data(data, data_type) of the connector's class
DoSendData(w, cls, data, data_type, x) ==
    CASE w.conn.kind = "Kafka"    -> KafkaSendData(w, data, data_type, x)
      [] w.conn.kind = "RabbitMQ" -> RabbitSendData(w, data, data_type, x)
      [] w.conn.kind = "ActiveMQ" -> ActiveSendData(w, data, data_type, x)
      [] w.conn.kind = "Custom"   -> CustomSendData(w, cls, data, data_type, x)
      [] OTHER                    -> VendorSendData(w, data, data_type, x)

\* test_connection() of the connector's class
DoTestConnection(w, cls, x) ==
    CASE w.conn.kind = "Kafka"    -> KafkaTestConnection(w, x)
      [] w.conn.kind = "RabbitMQ" -> RabbitTestConnection(w, x)
      [] w.conn.kind = "ActiveMQ" -> ActiveTestConnection(w, x)
      [] w.conn.kind = "Custom"   -> CustomTestConnection(w, cls, x)
      [] OTHER                    -> VendorTestConnection(w, x)

\* BaseConnector.validate_config: the list of error strings
RECURSIVE FieldErrors(_, _)
FieldErrors(config, fields) ==
    IF fields = <<>> THEN <<>>
    ELSE LET f == Head(fields)
             rest == FieldErrors(config, Tail(fields))
         IN IF f \notin DOMAIN config THEN <<"missing: " \o f>> \o rest
            ELSE IF ~Truthy(config[f]) THEN <<"empty: " \o f>> \o rest
            ELSE rest

validate_config(c) ==
    IF c.config = EmptyDict THEN <<"Configuration is required">>
    ELSE FieldErrors(c.config, RequiredFields(c.kind))

\* get_status as it would be if it reported the state the connector was
\* constructed in
get_status_AsConstructed(c) ==
    [name |-> c.kind, connected |-> FALSE, last_sync |-> 0,
     config_valid |-> Len(validate_config(c)) = 0]

\* BaseConnector.get_status
get_status(c) ==
    [name |-> c.kind, connected |-> c.is_connected, last_sync |-> c.last_sync,
     config_valid |-> Len(validate_config(c)) = 0]

\* ------------------------------------------------------- inputs of a call
Batches == {Batch(n) : n \in 0..MaxMsgs}

\* what the environment does during one sync_data call: where the implicit
\* connect and the protocol operation fail, and what the transport or the
\* plugin hands back (in one of `shapes`, a list out of `lists` or a dict
\* out of `dicts`)
SyncEnvsOver(c, shapes, lists, dicts) ==
    {x \in [cfail : IF c.is_connected THEN {"none"} ELSE ConnectFails(c.kind),
            fail  : OpFails(c.kind),
            shape : IF c.kind = "Custom" THEN shapes ELSE {"dict_list"},
            data  : IF c.kind \in {"Kafka", "RabbitMQ", "Custom"} THEN lists ELSE {<<>>},
            dict  : IF c.kind = "Custom" THEN dicts \cup {EmptyDict} ELSE {EmptyDict}] :
        /\ x.fail # "none" => (x.data = <<>> /\ x.shape = "dict_list")
        /\ x.shape \in {"dict_unsized", "dict_nodata", "dict_dict"} => x.data = <<>>
        /\ x.shape = "dict_dict" <=> x.dict # EmptyDict}

SyncEnvs(c) == SyncEnvsOver(c, PluginShapes, Batches, {[records |-> 1]})

\* what the environment does during one send_data or test_connection call
SendEnvs(c) ==
    [cfail : IF c.is_connected THEN {"none"} ELSE ConnectFails(c.kind),
     fail  : OpFails(c.kind)]

\* the payloads sent: with and without a destination of their own
Payloads(kind) ==
    CASE kind = "Kafka"    -> {[message |-> "m"], [message |-> "m", topic |-> "t2"]}
      [] kind = "RabbitMQ" -> {[message |-> "m"], [message |-> "m", queue |-> "t2"]}
      [] kind = "ActiveMQ" -> {[message |-> "m"], [message |-> "m", destination |-> "t2"]}
      [] OTHER             -> {[message |-> "m"]}

NoArgs == [data_type |-> "", filters |-> EmptyDict, data |-> EmptyDict]

\* the custom methods asked for: one PluginTemplate has and one no plugin has
MethodNames == {"get_metadata", "non_existent_method"}

\* the arguments a custom method is called with: none, or one positional
\* and one keyword argument
CallArgs ==
    {[args |-> <<>>, kwargs |-> EmptyDict],
     [args |-> <<"arg1">>, kwargs |-> [key |-> "value"]]}

\* what the environment does during one execute_custom_method call
ExecuteEnvs(c) ==
    [cfail : IF c.is_connected /\ c.plugin_instance # 0
             THEN {"none"} ELSE ConnectFails(c.kind),
     fail  : OpFails(c.kind)]

\* the events and the handler functions of the registry
EventTypes == {"created", "deleted"}
EventData == {[id |-> "1"]}

\* the registrations made: two handlers for one event, one for the other
Registrations ==
    {[event_type |-> "created", handler_func |-> "handler1"],
     [event_type |-> "created", handler_func |-> "handler2"],
     [event_type |-> "deleted", handler_func |-> "handler1"]}

\* what a handler does when it is called: it raises, or it returns a value
\* of its own
HandlerEnvs(handlers, event_type) ==
    IF event_type \notin DOMAIN handlers THEN {[fail |-> "none", value |-> PyNone]}
    ELSE {[fail |-> "second", value |-> PyNone],
          [fail |-> "none", value |-> "result of " \o handlers[event_type]]}

\* --------------------------------------------------------------- actions
Commit(op, args, r) ==
    /\ conn' = r.w.conn
    /\ handles' = r.w.handles
    /\ log' = r.w.log
    /\ ret' = [op |-> op, args |-> args, result |-> r.r, trace |-> r.w.trace]
    /\ calls' = calls + 1
    /\ UNCHANGED <<plugin_class, bank>>

Connect ==
    /\ calls < MaxCalls
    /\ \E fail \in ConnectFails(conn.kind) :
         LET r == DoConnect(World(conn, handles, log), plugin_class, fail)
         IN Commit("connect", NoArgs, Ret(r.w, [returned |-> r.r]))

Disconnect ==
    /\ calls < MaxCalls
    /\ \E fail \in DisconnectFails(conn.kind) :
         LET r == DoDisconnect(World(conn, handles, log), plugin_class, fail)
         IN Commit("disconnect", NoArgs, Ret(r.w, [returned |-> r.r]))

TestConnection ==
    /\ calls < MaxCalls
    /\ \E x \in SendEnvs(conn) :
         Commit("test_connection", NoArgs,
                DoTestConnection(World(conn, handles, log), plugin_class, x))

SyncData ==
    /\ calls < MaxCalls
    /\ \E data_type \in DataTypes(conn.kind), filters \in FilterSets(conn.kind),
          x \in SyncEnvs(conn) :
         Commit("sync_data", [NoArgs EXCEPT !.data_type = data_type, !.filters = filters],
                DoSyncData(World(conn, handles, log), plugin_class, data_type, filters, x))

SendData ==
    /\ calls < MaxCalls
    /\ \E data \in Payloads(conn.kind), x \in SendEnvs(conn) :
         Commit("send_data", [NoArgs EXCEPT !.data_type = "orders", !.data = data],
                DoSendData(World(conn, handles, log), plugin_class, data, "orders", x))

ValidateConfig ==
    /\ calls < MaxCalls
    /\ Commit("validate_config", NoArgs,
              Ret(World(conn, handles, log), [errors |-> validate_config(conn)]))

GetStatus ==
    /\ calls < MaxCalls
    /\ Commit("get_status", NoArgs, Ret(World(conn, handles, log), get_status(conn)))

ExecuteCustomMethod ==
    /\ calls < MaxCalls /\ conn.kind = "Custom"
    /\ \E method_name \in MethodNames, a \in CallArgs, x \in ExecuteEnvs(conn) :
         Commit("execute_custom_method",
                [method_name |-> method_name, args |-> a.args, kwargs |-> a.kwargs],
                execute_custom_method(World(conn, handles, log), plugin_class,
                                      method_name, a.args, a.kwargs, x))

RegisterCustomHandler ==
    /\ calls < MaxCalls /\ conn.kind = "Custom"
    /\ \E r \in Registrations :
         Commit("register_custom_handler", r,
                register_custom_handler(World(conn, handles, log), r.event_type,
                                        r.handler_func))

TriggerCustomEvent ==
    /\ calls < MaxCalls /\ conn.kind = "Custom"
    /\ \E event_type \in EventTypes, event_data \in EventData :
       \E x \in HandlerEnvs(conn.custom_handlers, event_type) :
         Commit("trigger_custom_event",
                [event_type |-> event_type, event_data |-> event_data],
                trigger_custom_event(World(conn, handles, log), event_type,
                                     event_data, x))

NoBank == [op |-> "none"]

Init ==
    /\ \E kind \in Kinds : \E config \in Configs(kind) : conn = NewConnector(kind, config)
    /\ plugin_class \in (IF conn.kind = "Custom" THEN PluginClasses ELSE {{}})
    /\ handles = <<>>
    /\ log = <<>>
    /\ ret = [op |-> "init", args |-> NoArgs, result |-> [returned |-> TRUE], trace |-> <<>>]
    /\ calls = 0
    /\ bank = NoBank

Next ==
    \/ Connect
    \/ Disconnect
    \/ TestConnection
    \/ SyncData
    \/ SendData
    \/ ValidateConfig
    \/ GetStatus

Spec == Init /\ [][Next]_vars

\* a Custom connector, with the operations only CustomConnector has
InitCustom ==
    /\ \E config \in {FullConfig("Custom"), EmptyDict} :
          conn = NewConnector("Custom", config)
    /\ plugin_class \in PluginClasses
    /\ handles = <<>>
    /\ log = <<>>
    /\ ret = [op |-> "init", args |-> NoArgs, result |-> [returned |-> TRUE], trace |-> <<>>]
    /\ calls = 0
    /\ bank = NoBank

NextCustom ==
    \/ Connect
    \/ Disconnect
    \/ TestConnection
    \/ SyncData
    \/ SendData
    \/ ValidateConfig
    \/ GetStatus
    \/ ExecuteCustomMethod
    \/ RegisterCustomHandler
    \/ TriggerCustomEvent

SpecCustom == InitCustom /\ [][NextCustom]_vars


\* ===================================================== banking module
\* ------------------------------------------------------------- amounts
\* An amount as a caller or a bank hands it over: a number, a string (with
\* or without a currency symbol and thousands separators), a string that is
\* no number, a Decimal, or None.  v is its value in cents.
Num(v) == [t |-> "num", v |-> v, sym |-> FALSE, sep |-> FALSE]
Str(v, sym, sep) == [t |-> "str", v |-> v, sym |-> sym, sep |-> sep]
Dec(v) == [t |-> "dec", v |-> v, sym |-> FALSE, sep |-> FALSE]
BadStr == [t |-> "bad", v |-> 0, sym |-> FALSE, sep |-> FALSE]
NoneAmount == [t |-> "none", v |-> 0, sym |-> FALSE, sep |-> FALSE]

\* the outcome of a call that may raise
Raise == [raised |-> TRUE]
Return(v) == [raised |-> FALSE, value |-> v]

\* decimal.Decimal(s) of a string: raises InvalidOperation unless the
\* string is a plain number
Decimal(s) ==
    IF s.t = "str" /\ ~s.sym /\ ~s.sep THEN Return(s.v) ELSE Raise

\* BankingIntegrationModule._parse_amount
parse_amount(amount) ==
    CASE amount.t = "num" -> Decimal(Str(amount.v, FALSE, FALSE))
      [] amount.t \in {"str", "bad"} -> Decimal([amount EXCEPT !.sym = FALSE, !.sep = FALSE])
      [] amount.t = "dec" -> Return(amount.v)
      [] OTHER -> Return(0)

\* str.lower() over the strings that occur
Lower(s) ==
    CASE s \in {"CREDIT", "Credit"} -> "credit"
      [] s \in {"DEBIT", "Debit"}   -> "debit"
      [] s = "RBC"                  -> "rbc"
      [] s = "TD"                   -> "td"
      [] s = "Interac"              -> "interac"
      [] s = "WIRE"                 -> "wire"
      [] s = "ACH"                  -> "ach"
      [] s = "SAP"                  -> "sap"
      [] s = "Dynamics"             -> "dynamics"
      [] OTHER                      -> s

\* str.upper() over the bank types, ERP types and data type words that occur
Upper(s) ==
    CASE s = "generic" -> "GENERIC"
      [] s = "td"      -> "TD"
      [] s = "rbc"     -> "RBC"
      [] s \in {"sap", "SAP"}  -> "SAP"
      [] s = "postgresql_erp"  -> "POSTGRESQL_ERP"
      [] s = "dynamics"        -> "DYNAMICS"
      [] s = "invoices"        -> "INVOICES"
      [] s = "purchase"        -> "PURCHASE"
      [] s = "orders"          -> "ORDERS"
      [] s \in {"projects", "Projects"} -> "PROJECTS"
      [] OTHER         -> s

\* BankingIntegrationModule.__init__: what the module reads off its connector
BankType(c) == Get(c.config, "bank_type", "generic")
PaymentGateway(c) == Get(c.config, "payment_gateway", "generic")
ModuleName(c) == "BANKING_" \o Upper(BankType(c))

\* BankingIntegrationModule._determine_transaction_type
determine_transaction_type(transaction) ==
    LET amount == parse_amount(Get(transaction, "amount", Num(0)))
    IN IF amount.raised THEN Raise
       ELSE IF "type" \in DOMAIN transaction
       THEN (IF transaction.type = PyNone THEN Raise ELSE Return(Lower(transaction.type)))
       ELSE Return(IF amount.value > 0 THEN "credit" ELSE "debit")

\* BankingIntegrationModule._transform_bank_transactions; iterating a dict
\* yields its keys, which have no get()
RECURSIVE TransformEach(_, _)
TransformEach(bank_data, bank_type) ==
    IF bank_data = <<>> THEN Return(<<>>)
    ELSE LET transaction == Head(bank_data)
             amount == parse_amount(Get(transaction, "amount", Num(0)))
             type == determine_transaction_type(transaction)
             balance_after == parse_amount(Get(transaction, "balance_after", Num(0)))
             rest == TransformEach(Tail(bank_data), bank_type)
         IN IF amount.raised \/ type.raised \/ balance_after.raised \/ rest.raised
            THEN Raise
            ELSE Return(<<[id |-> Get(transaction, "transaction_id",
                                      Get(transaction, "id", PyNone)),
                           amount |-> amount.value,
                           transaction_type |-> type.value,
                           currency |-> Get(transaction, "currency", "CAD"),
                           balance_after |-> balance_after.value,
                           bank_source |-> bank_type]>> \o rest.value)

transform_bank_transactions(result, bank_type) ==
    IF DataIsDict(result) THEN Raise
    ELSE TransformEach(Get(result, "data", <<>>), bank_type)

\* the four institutions with filters of their own
BankFilters(institution) ==
    CASE institution = "rbc" -> [institution_id |-> "003", format |-> "json", include_pending |-> TRUE]
      [] institution = "td"  -> [institution_id |-> "004", format |-> "json", include_holds |-> TRUE]
      [] institution = "bmo" -> [institution_id |-> "001", format |-> "json", include_memo |-> TRUE]
      [] institution = "scotiabank" ->
             [institution_id |-> "002", format |-> "json", include_categories |-> TRUE]
      [] OTHER -> EmptyDict

\* BankingIntegrationModule._apply_bank_specific_filters
apply_bank_specific_filters(bank_type, filters) ==
    Merge(filters, BankFilters(Lower(bank_type)))

\* the shortest recipient account number accepted
MinAccountLen == 5

\* BankingIntegrationModule._validate_payment_data; the InvalidOperation of
\* an unparsable amount is neither a ValueError nor a TypeError and leaves
\* the validator
validate_payment_data(payment_data) ==
    LET required_fields == <<"amount", "recipient_account", "recipient_name">>
        missing == SelectSeq(required_fields, LAMBDA f : f \notin DOMAIN payment_data)
        amount == parse_amount(Get(payment_data, "amount", Num(0)))
        recipient_account == Get(payment_data, "recipient_account", <<>>)
        errors ==
            [i \in DOMAIN missing |-> "Required field '" \o missing[i] \o "' is missing"]
            \o (IF amount.value <= 0 THEN <<"Amount must be greater than zero">> ELSE <<>>)
            \o (IF Len(recipient_account) < MinAccountLen
                THEN <<"Invalid recipient account number">> ELSE <<>>)
    IN IF amount.raised THEN Raise
       ELSE Return([valid |-> Len(errors) = 0, errors |-> errors])

\* str(payment_data.get('amount')) as the gateway formats carry it
StrOf(payment_data) ==
    IF "amount" \notin DOMAIN payment_data THEN BadStr
    ELSE LET amount == payment_data.amount
         IN IF amount.t \in {"num", "dec"} THEN Str(amount.v, FALSE, FALSE)
            ELSE IF amount.t = "none" THEN BadStr
            ELSE amount

\* BankingIntegrationModule._transform_payment_to_bank_format with
\* _transform_to_interac_format, _transform_to_wire_format and
\* _transform_to_ach_format
transform_payment_to_bank_format(payment_gateway, payment_data) ==
    LET amount == StrOf(payment_data)
        currency == Get(payment_data, "currency", "CAD")
        name == Get(payment_data, "recipient_name", PyNone)
        account == Get(payment_data, "recipient_account", PyNone)
    IN IF payment_gateway = PyNone THEN Raise
       ELSE CASE Lower(payment_gateway) = "interac" ->
                   Return([payment_type |-> "interac_etransfer", amount |-> amount,
                           currency |-> currency, recipient_name |-> name, message |-> ""])
              [] Lower(payment_gateway) = "wire" ->
                   Return([payment_type |-> "wire_transfer", amount |-> amount,
                           currency |-> currency, beneficiary_name |-> name,
                           beneficiary_account |-> account])
              [] Lower(payment_gateway) = "ach" ->
                   Return([payment_type |-> "ach_transfer", amount |-> amount,
                           currency |-> currency, receiver_name |-> name,
                           receiver_account |-> account, transaction_code |-> "22"])
              [] OTHER -> Return(payment_data)

\* ------------------------------------------------- module operations
\* A module operation is evaluated over a world like a connector operation;
\* it returns the world it leaves, its result, the connector calls it made
\* in order, and the steps it went through.
Out(w, r, made, steps) == [w |-> w, r |-> r, made |-> made, steps |-> steps]

\* one call of connector.sync_data / send_data as the module sees it
Made(op, data_type, arg, k) ==
    [op |-> op, data_type |-> data_type, arg |-> arg, result |-> k.r, trace |-> k.w.trace]

Fresh(w) == [w EXCEPT !.trace = <<>>]

\* the loop body of sync_bank_transactions after connector.sync_data
\* returned k: the entry of the account, from the result or from the
\* exception the transformation raised
TransactionsSynced(st, account_number, date_range, bank_filters, k) ==
    LET transformed == transform_bank_transactions(k.r, BankType(k.w.conn))
        entry ==
            IF Get(k.r, "status", PyNone) = "success"
            THEN IF transformed.raised
                 THEN [status |-> "error", message |-> "exception"]
                 ELSE [status |-> "success", count |-> Len(transformed.value),
                       transactions |-> transformed.value,
                       date_range |-> date_range]
            ELSE [status |-> "error", message |-> Get(k.r, "message", "Unknown error"),
                  date_range |-> date_range]
    IN [w |-> k.w, results |-> Put(st.results, account_number, entry),
        made |-> Append(st.made, Made("sync_data", "transactions", bank_filters, k))]

\* the loop body of sync_bank_transactions for one account
SyncAccountTransactions(st, cls, account_number, date_from, date_to, x) ==
    LET filters == [account_number |-> account_number,
                    date_from |-> date_from, date_to |-> date_to]
        bank_filters == apply_bank_specific_filters(BankType(st.w.conn), filters)
    IN TransactionsSynced(st, account_number, <<date_from, date_to>>, bank_filters,
           DoSyncData(Fresh(st.w), cls, "transactions", bank_filters, x))

\* the loop of sync_bank_transactions as it would be if the first account
\* that fails ended the batch
RECURSIVE SyncEachTransactions_StopAtError(_, _, _, _, _, _)
SyncEachTransactions_StopAtError(st, cls, account_numbers, date_from, date_to, xs) ==
    IF account_numbers = <<>> THEN st
    ELSE LET next == SyncAccountTransactions(st, cls, Head(account_numbers),
                                             date_from, date_to, Head(xs))
         IN IF next.results[Head(account_numbers)].status = "error" THEN next
            ELSE SyncEachTransactions_StopAtError(next, cls, Tail(account_numbers),
                                                  date_from, date_to, Tail(xs))

RECURSIVE SyncEachTransactions(_, _, _, _, _, _)
SyncEachTransactions(st, cls, account_numbers, date_from, date_to, xs) ==
    IF account_numbers = <<>> THEN st
    ELSE SyncEachTransactions(
             SyncAccountTransactions(st, cls, Head(account_numbers),
                                     date_from, date_to, Head(xs)),
             cls, Tail(account_numbers), date_from, date_to, Tail(xs))

Succeeded(results) == {key \in DOMAIN results : results[key].status = "success"}

Start(w) == [w |-> w, results |-> EmptyDict, made |-> <<>>]

\* what sync_bank_transactions returns once its loop has ended in st
TransactionsResult(c, st) ==
    Out(st.w,
        [module |-> ModuleName(c), results |-> st.results,
         total_accounts_synced |-> Cardinality(Succeeded(st.results))],
        st.made, <<>>)

\* BankingIntegrationModule.sync_bank_transactions
sync_bank_transactions(w, cls, account_numbers, date_from, date_to, xs) ==
    TransactionsResult(w.conn,
        SyncEachTransactions(Start(w), cls, account_numbers,
                             IF Truthy(date_from) THEN date_from ELSE "today-30",
                             IF Truthy(date_to) THEN date_to ELSE "today", xs))

\* the loop body of sync_account_balances after connector.sync_data returned k
BalanceSynced(st, account_number, bank_filters, k) ==
    LET balance_data == Get(k.r, "data", EmptyDict)
        current_balance == parse_amount(Get(balance_data, "current_balance", Num(0)))
        available_balance == parse_amount(Get(balance_data, "available_balance", Num(0)))
        entry ==
            IF Get(k.r, "status", PyNone) = "success"
            THEN IF ~DataIsDict(k.r) \/ current_balance.raised \/ available_balance.raised
                 THEN [status |-> "error", message |-> "exception"]
                 ELSE [status |-> "success",
                       current_balance |-> current_balance.value,
                       available_balance |-> available_balance.value,
                       currency |-> Get(balance_data, "currency", "CAD")]
            ELSE [status |-> "error", message |-> Get(k.r, "message", "Unknown error")]
    IN [w |-> k.w, results |-> Put(st.results, account_number, entry),
        made |-> Append(st.made, Made("sync_data", "balance", bank_filters, k))]

\* the loop body of sync_account_balances for one account
SyncAccountBalance(st, cls, account_number, x) ==
    LET bank_filters == apply_bank_specific_filters(BankType(st.w.conn),
                                                    [account_number |-> account_number])
    IN BalanceSynced(st, account_number, bank_filters,
                     DoSyncData(Fresh(st.w), cls, "balance", bank_filters, x))

RECURSIVE SyncEachBalance(_, _, _, _)
SyncEachBalance(st, cls, account_numbers, xs) ==
    IF account_numbers = <<>> THEN st
    ELSE SyncEachBalance(SyncAccountBalance(st, cls, Head(account_numbers), Head(xs)),
                         cls, Tail(account_numbers), Tail(xs))

\* what sync_account_balances returns once its loop has ended in st
BalancesResult(c, st) ==
    Out(st.w, [module |-> ModuleName(c), results |-> st.results], st.made, <<>>)

\* BankingIntegrationModule.sync_account_balances
sync_account_balances(w, cls, account_numbers, xs) ==
    BalancesResult(w.conn, SyncEachBalance(Start(w), cls, account_numbers, xs))

\* what initiate_payment returns when an exception reached its handler
PaymentCaught(w, steps) ==
    Out(w, [status |-> "error", message |-> "exception",
            payment_method |-> PaymentGateway(w.conn)], <<>>, steps)

\* initiate_payment after connector.send_data returned k
PaymentSent(payment_data, bank_payment_data, k) ==
    LET made == <<Made("send_data", "payment", bank_payment_data, k)>>
        steps == <<"validate", "transform", "send">>
    IN IF Get(k.r, "status", PyNone) = "success"
       THEN Out(k.w, [status |-> "success",
                      payment_id |-> Get(k.r, "payment_id", PyNone),
                      amount |-> Get(payment_data, "amount", PyNone),
                      currency |-> Get(payment_data, "currency", "CAD"),
                      recipient |-> Get(payment_data, "recipient_name", PyNone),
                      payment_method |-> PaymentGateway(k.w.conn)], made, steps)
       ELSE Out(k.w, [status |-> "error",
                      message |-> Get(k.r, "message", "Payment failed"),
                      payment_method |-> PaymentGateway(k.w.conn)], made, steps)

\* initiate_payment as it would be if the validation result were not
\* looked at before the payment is sent
initiate_payment_SendInvalid(w, cls, payment_data, x) ==
    LET validation_result == validate_payment_data(payment_data)
        bank_payment_data ==
            transform_payment_to_bank_format(PaymentGateway(w.conn), payment_data)
    IN IF validation_result.raised THEN PaymentCaught(w, <<"validate">>)
       ELSE IF bank_payment_data.raised THEN PaymentCaught(w, <<"validate", "transform">>)
       ELSE PaymentSent(payment_data, bank_payment_data.value,
                        DoSendData(Fresh(w), cls, bank_payment_data.value, "payment", x))

\* BankingIntegrationModule.initiate_payment
initiate_payment(w, cls, payment_data, x) ==
    LET validation_result == validate_payment_data(payment_data)
        bank_payment_data ==
            transform_payment_to_bank_format(PaymentGateway(w.conn), payment_data)
    IN IF validation_result.raised THEN PaymentCaught(w, <<"validate">>)
       ELSE IF ~validation_result.value.valid
       THEN Out(w, [status |-> "error", message |-> "Payment validation failed",
                    errors |-> validation_result.value.errors], <<>>, <<"validate">>)
       ELSE IF bank_payment_data.raised THEN PaymentCaught(w, <<"validate", "transform">>)
       ELSE PaymentSent(payment_data, bank_payment_data.value,
                        DoSendData(Fresh(w), cls, bank_payment_data.value, "payment", x))

\* check_payment_status after connector.sync_data returned k
StatusSynced(payment_id, bank_filters, k) ==
    LET made == <<Made("sync_data", "payment_status", bank_filters, k)>>
        status_data == Get(k.r, "data", EmptyDict)
        amount == parse_amount(Get(status_data, "amount", Num(0)))
    IN IF Get(k.r, "status", PyNone) = "success"
       THEN IF ~DataIsDict(k.r) \/ amount.raised
            THEN Out(k.w, [status |-> "error", message |-> "exception",
                           payment_id |-> payment_id], made, <<>>)
            ELSE Out(k.w, [status |-> "success", payment_id |-> payment_id,
                           payment_status |-> Get(status_data, "status", PyNone),
                           amount |-> amount.value,
                           payment_method |-> PaymentGateway(k.w.conn)], made, <<>>)
       ELSE Out(k.w, [status |-> "error",
                      message |-> Get(k.r, "message", "Failed to check payment status"),
                      payment_id |-> payment_id], made, <<>>)

\* BankingIntegrationModule.check_payment_status
check_payment_status(w, cls, payment_id, x) ==
    LET bank_filters == apply_bank_specific_filters(BankType(w.conn),
                                                    [payment_id |-> payment_id])
    IN StatusSynced(payment_id, bank_filters,
                    DoSyncData(Fresh(w), cls, "payment_status", bank_filters, x))

\* the amounts of the transactions of one type, in order
RECURSIVE AmountsOf(_, _)
AmountsOf(transactions, type) ==
    IF transactions = <<>> THEN <<>>
    ELSE (IF Head(transactions).transaction_type = type
          THEN <<Head(transactions).amount>> ELSE <<>>)
         \o AmountsOf(Tail(transactions), type)

\* the report as it would be if a failed balance sync failed the report
Report_NeedsBalance(account_number, period, bank_transactions, bank_sync, balance_sync) ==
    Out(balance_sync.w,
        IF balance_sync.r.results[account_number].status = "success"
        THEN [status |-> "success",
              account_number |-> account_number,
              period |-> period,
              summary |->
                  [total_transactions |-> Len(bank_transactions),
                   total_debits |-> SeqSum(AmountsOf(bank_transactions, "debit")),
                   total_credits |-> SeqSum(AmountsOf(bank_transactions, "credit")),
                   net_change |-> SeqSum(AmountsOf(bank_transactions, "credit"))
                                  - SeqSum(AmountsOf(bank_transactions, "debit")),
                   current_balance |->
                       balance_sync.r.results[account_number].current_balance],
              transactions |-> bank_transactions]
        ELSE [status |-> "error", message |-> "Failed to sync account balance"],
        bank_sync.made \o balance_sync.made, <<"transactions", "balance">>)

\* the report of generate_bank_reconciliation_report, from the transactions
\* and the outcome of the balance sync
Report(account_number, period, bank_transactions, bank_sync, balance_sync) ==
    LET total_debits == SeqSum(AmountsOf(bank_transactions, "debit"))
        total_credits == SeqSum(AmountsOf(bank_transactions, "credit"))
        net_change == total_credits - total_debits
        balance == balance_sync.r.results[account_number]
        current_balance == IF balance.status = "success"
                           THEN balance.current_balance ELSE 0
    IN Out(balance_sync.w,
           [status |-> "success",
            account_number |-> account_number,
            period |-> period,
            summary |-> [total_transactions |-> Len(bank_transactions),
                         total_debits |-> total_debits,
                         total_credits |-> total_credits,
                         net_change |-> net_change,
                         current_balance |-> current_balance],
            transactions |-> bank_transactions],
           bank_sync.made \o balance_sync.made, <<"transactions", "balance">>)

\* generate_bank_reconciliation_report after sync_bank_transactions returned
Reconcile(cls, account_number, period, bank_sync, x) ==
    IF bank_sync.r.results[account_number].status # "success"
    THEN Out(bank_sync.w,
             [status |-> "error",
              message |-> "Failed to sync bank transactions for reconciliation"],
             bank_sync.made, <<"transactions">>)
    ELSE Report(account_number, period,
                bank_sync.r.results[account_number].transactions, bank_sync,
                sync_account_balances(bank_sync.w, cls, <<account_number>>, <<x>>))

\* BankingIntegrationModule.generate_bank_reconciliation_report
generate_bank_reconciliation_report(w, cls, account_number, date_from, date_to, xs) ==
    Reconcile(cls, account_number, <<date_from, date_to>>,
              sync_bank_transactions(w, cls, <<account_number>>, date_from, date_to,
                                     <<xs[1]>>),
              xs[2])

\* ========================================================= ERP module
\* A data type is written as the sequence of its words: the Python string
\* is the words joined by '_', and str.replace('_', sep) joins them by sep.
RECURSIVE Join(_, _)
Join(words, sep) ==
    IF words = <<>> THEN ""
    ELSE IF Len(words) = 1 THEN words[1]
    ELSE words[1] \o sep \o Join(Tail(words), sep)

\* ERPIntegrationModule.__init__: what the module reads off its connector
ErpType(c) == Get(c.config, "erp_type", "generic")
ErpModuleName(c) == "ERP_" \o Upper(ErpType(c))

\* ERPIntegrationModule._map_sap_endpoint
map_sap_endpoint(data_type) ==
    CASE Join(data_type, "_") = "accounts_payable"    -> "AP_INVOICE"
      [] Join(data_type, "_") = "accounts_receivable" -> "AR_INVOICE"
      [] Join(data_type, "_") = "general_ledger"      -> "GL_ACCOUNT"
      [] Join(data_type, "_") = "cost_centers"        -> "COST_CENTER"
      [] Join(data_type, "_") = "projects"            -> "PROJECT_SYSTEM"
      [] OTHER -> Join([i \in DOMAIN data_type |-> Upper(data_type[i])], "_")

\* ERPIntegrationModule._map_postgresql_erp_endpoint
map_postgresql_erp_endpoint(data_type) ==
    CASE Join(data_type, "_") = "accounts_payable"    -> "api/v1/ap/invoices"
      [] Join(data_type, "_") = "accounts_receivable" -> "api/v1/ar/invoices"
      [] Join(data_type, "_") = "general_ledger"      -> "api/v1/gl/journals"
      [] Join(data_type, "_") = "cost_centers"        -> "api/v1/gl/costcenters"
      [] Join(data_type, "_") = "projects"            -> "api/v1/pm/projects"
      [] OTHER -> "api/v1/" \o Join(data_type, "/")

\* ERPIntegrationModule._map_dynamics_endpoint
map_dynamics_endpoint(data_type) ==
    CASE Join(data_type, "_") = "accounts_payable"    -> "vendorInvoices"
      [] Join(data_type, "_") = "accounts_receivable" -> "customerInvoices"
      [] Join(data_type, "_") = "general_ledger"      -> "generalLedgerEntries"
      [] Join(data_type, "_") = "cost_centers"        -> "dimensions"
      [] Join(data_type, "_") = "projects"            -> "projects"
      [] OTHER -> Join(data_type, "_")

\* _map_data_type_to_erp_endpoint as it would be if erp_type were compared
\* as it is written in the config
map_data_type_to_erp_endpoint_CaseSensitive(erp_type, data_type) ==
    CASE erp_type = "sap"            -> map_sap_endpoint(data_type)
      [] erp_type = "postgresql_erp" -> map_postgresql_erp_endpoint(data_type)
      [] erp_type = "dynamics"       -> map_dynamics_endpoint(data_type)
      [] OTHER                       -> Join(data_type, "-")

\* ERPIntegrationModule._map_data_type_to_erp_endpoint
map_data_type_to_erp_endpoint(erp_type, data_type) ==
    CASE Lower(erp_type) = "sap"            -> map_sap_endpoint(data_type)
      [] Lower(erp_type) = "postgresql_erp" -> map_postgresql_erp_endpoint(data_type)
      [] Lower(erp_type) = "dynamics"       -> map_dynamics_endpoint(data_type)
      [] OTHER                              -> Join(data_type, "-")

\* ERPIntegrationModule._apply_erp_specific_filters with _get_sap_filters,
\* _get_postgresql_erp_filters and _get_dynamics_filters
apply_erp_specific_filters(c, filters) ==
    CASE Lower(ErpType(c)) = "sap" ->
             Merge(filters, [client |-> Get(c.config, "sap_client", "100"),
                             language |-> "EN"])
      [] Lower(ErpType(c)) = "postgresql_erp" ->
             Merge(filters,
                   [database_schema |-> Get(c.config, "postgresql_schema", "public"),
                    company_id |-> Get(c.config, "company_id", PyNone),
                    fiscal_year |-> Get(c.config, "fiscal_year", PyNone),
                    currency |-> Get(c.config, "default_currency", "CAD")])
      [] Lower(ErpType(c)) = "dynamics" ->
             Merge(filters,
                   [company |-> Get(c.config, "dynamics_company", PyNone),
                    dataAreaId |-> Get(c.config, "dynamics_data_area_id", PyNone)])
      [] OTHER -> filters

\* float(x) of an amount: raises for a string that is no plain number and
\* for None
Float(amount) ==
    IF amount.t \in {"num", "dec"} \/ (amount.t = "str" /\ ~amount.sym /\ ~amount.sep)
    THEN Return(amount.v) ELSE Raise

\* the loop of a _transform_<vendor>_data: every record converted, or the
\* exception of the first float() that raised
Converted(records, amounts) ==
    IF \E i \in DOMAIN amounts : amounts[i].raised THEN Raise ELSE Return(records)

\* ERPIntegrationModule._transform_sap_data
transform_sap_data(data_type, sap_data) ==
    LET amounts == [i \in DOMAIN sap_data |-> Float(Get(sap_data[i], "WRBTR", Num(0)))]
        party(record) ==
            IF data_type = "accounts_payable"
            THEN [vendor_id |-> Get(record, "LIFNR", PyNone),
                  vendor_name |-> Get(record, "NAME1", PyNone)]
            ELSE [customer_id |-> Get(record, "KUNNR", PyNone),
                  customer_name |-> Get(record, "NAME1", PyNone)]
    IN IF data_type \in {"accounts_payable", "accounts_receivable"}
       THEN Converted(
                [i \in DOMAIN sap_data |->
                    Merge([id |-> Get(sap_data[i], "BELNR", PyNone),
                           invoice_number |-> Get(sap_data[i], "XBLNR", PyNone),
                           amount |-> Get(amounts[i], "value", 0),
                           currency |-> Get(sap_data[i], "WAERS", PyNone),
                           due_date |-> Get(sap_data[i], "ZFBDT", PyNone),
                           posting_date |-> Get(sap_data[i], "BUDAT", PyNone),
                           status |-> IF Truthy(Get(sap_data[i], "AUGBL", PyNone))
                                      THEN "paid" ELSE "open",
                           erp_source |-> "SAP"], party(sap_data[i]))], amounts)
       ELSE Return(<<>>)

\* ERPIntegrationModule._transform_postgresql_erp_data
transform_postgresql_erp_data(data_type, postgresql_data) ==
    LET amounts == [i \in DOMAIN postgresql_data |->
                       Float(Get(postgresql_data[i], "invoice_amount", Num(0)))]
        party(record) ==
            IF data_type = "accounts_payable"
            THEN [vendor_id |-> Get(record, "vendor_id", PyNone),
                  vendor_name |-> Get(record, "vendor_name", PyNone)]
            ELSE [customer_id |-> Get(record, "customer_id", PyNone),
                  customer_name |-> Get(record, "customer_name", PyNone)]
    IN IF data_type \in {"accounts_payable", "accounts_receivable"}
       THEN Converted(
                [i \in DOMAIN postgresql_data |->
                    Merge([id |-> Get(postgresql_data[i], "invoice_id", PyNone),
                           invoice_number |-> Get(postgresql_data[i], "invoice_number", PyNone),
                           amount |-> Get(amounts[i], "value", 0),
                           currency |-> Get(postgresql_data[i], "currency_code", "CAD"),
                           due_date |-> Get(postgresql_data[i], "due_date", PyNone),
                           posting_date |-> Get(postgresql_data[i], "invoice_date", PyNone),
                           status |-> IF Get(postgresql_data[i], "payment_status", PyNone)
                                         = "PAID"
                                      THEN "paid" ELSE "open",
                           erp_source |-> "PostgreSQL_ERP"],
                          party(postgresql_data[i]))], amounts)
       ELSE Return(<<>>)

\* ERPIntegrationModule._transform_dynamics_data
transform_dynamics_data(data_type, dynamics_data) ==
    LET amounts == [i \in DOMAIN dynamics_data |->
                       Float(Get(dynamics_data[i], "InvoiceAmount", Num(0)))]
    IN IF data_type = "accounts_payable"
       THEN Converted(
                [i \in DOMAIN dynamics_data |->
                    [id |-> Get(dynamics_data[i], "RecId", PyNone),
                     vendor_id |-> Get(dynamics_data[i], "VendAccount", PyNone),
                     vendor_name |-> Get(dynamics_data[i], "VendorName", PyNone),
                     invoice_number |-> Get(dynamics_data[i], "InvoiceNumber", PyNone),
                     amount |-> Get(amounts[i], "value", 0),
                     currency |-> Get(dynamics_data[i], "CurrencyCode", PyNone),
                     due_date |-> Get(dynamics_data[i], "DueDate", PyNone),
                     posting_date |-> Get(dynamics_data[i], "InvoiceDate", PyNone),
                     status |-> Get(dynamics_data[i], "InvoiceStatus", PyNone),
                     erp_source |-> "Dynamics"]], amounts)
       ELSE Return(<<>>)

\* the data types a vendor's transformation has a field mapping for
MappedTypes(vendor) ==
    CASE vendor \in {"sap", "postgresql_erp"} -> {"accounts_payable", "accounts_receivable"}
      [] vendor = "dynamics" -> {"accounts_payable"}
      [] OTHER -> {}

\* ERPIntegrationModule._transform_erp_data of sync_result.get('data', []);
\* iterating a dict yields its keys, which have no get()
transform_erp_data(erp_type, data_type, sync_result) ==
    LET erp_data == Get(sync_result, "data", <<>>)
    IN IF Lower(erp_type) \notin {"sap", "postgresql_erp", "dynamics"}
       THEN Return(erp_data)
       ELSE IF DataIsDict(sync_result)
       THEN (IF data_type \in MappedTypes(Lower(erp_type)) /\ erp_data # EmptyDict
             THEN Raise ELSE Return(<<>>))
       ELSE CASE Lower(erp_type) = "sap" -> transform_sap_data(data_type, erp_data)
              [] Lower(erp_type) = "postgresql_erp" ->
                     transform_postgresql_erp_data(data_type, erp_data)
              [] OTHER -> transform_dynamics_data(data_type, erp_data)

\* the loop body of sync_financial_data after connector.sync_data returned k
FinancialSynced(st, data_type, erp_endpoint, erp_filters, k) ==
    LET transformed_data == transform_erp_data(ErpType(k.w.conn), data_type, k.r)
        entry ==
            IF Get(k.r, "status", PyNone) = "success"
            THEN IF transformed_data.raised
                 THEN [status |-> "error", message |-> "exception"]
                 ELSE [status |-> "success", count |-> PyLen(transformed_data.value),
                       data |-> transformed_data.value, erp_endpoint |-> erp_endpoint]
            ELSE [status |-> "error", message |-> Get(k.r, "message", "Unknown error"),
                  erp_endpoint |-> erp_endpoint]
    IN [w |-> k.w, results |-> Put(st.results, data_type, entry),
        made |-> Append(st.made, Made("sync_data", erp_endpoint, erp_filters, k))]

\* the loop body of sync_financial_data for one data type
SyncFinancialType(st, cls, data_type, filters, x) ==
    FinancialSynced(st, Join(data_type, "_"),
        map_data_type_to_erp_endpoint(ErpType(st.w.conn), data_type),
        apply_erp_specific_filters(st.w.conn, filters),
        DoSyncData(Fresh(st.w), cls,
                   map_data_type_to_erp_endpoint(ErpType(st.w.conn), data_type),
                   apply_erp_specific_filters(st.w.conn, filters), x))

RECURSIVE SyncEachFinancial(_, _, _, _, _)
SyncEachFinancial(st, cls, data_types, filters, xs) ==
    IF data_types = <<>> THEN st
    ELSE SyncEachFinancial(SyncFinancialType(st, cls, Head(data_types), filters, Head(xs)),
                           cls, Tail(data_types), filters, Tail(xs))

\* what sync_financial_data returns once its loop has ended in st
FinancialResult(c, st) ==
    Out(st.w,
        [module |-> ErpModuleName(c), results |-> st.results,
         total_synced |-> Cardinality(Succeeded(st.results))],
        st.made, <<>>)

\* ERPIntegrationModule.sync_financial_data
sync_financial_data(w, cls, data_types, filters, xs) ==
    FinancialResult(w.conn, SyncEachFinancial(Start(w), cls, data_types, filters, xs))

\* ------------------------------------------------ inputs of the module
\* longest transaction list a plugin returns for one account
MaxTx == 2

\* a string of n characters
Chars(n) == [i \in 1..n |-> "1"]

\* a field that may be absent: <<>> when absent, <<value>> when present
Optional(values) == {<<>>} \cup {<<v>> : v \in values}

Payment(amount, account, name) ==
    [k \in (IF amount = <<>> THEN {} ELSE {"amount"})
           \cup (IF account = <<>> THEN {} ELSE {"recipient_account"})
           \cup (IF name = <<>> THEN {} ELSE {"recipient_name"}) |->
        CASE k = "amount" -> amount[1]
          [] k = "recipient_account" -> account[1]
          [] OTHER -> name[1]]

\* the payments validated
Payments ==
    {Payment(amount, account, name) :
        amount \in Optional({Num(-100), Num(0), Num(100), Str(100, TRUE, TRUE),
                             BadStr, NoneAmount}),
        account \in Optional({Chars(0), Chars(MinAccountLen - 1), Chars(MinAccountLen),
                              Chars(MinAccountLen + 3)}),
        name \in Optional({"", "X"})}

\* the payments initiated
BankPayments ==
    {Payment(amount, account, name) :
        amount \in Optional({Num(-100), Num(100), BadStr}),
        account \in Optional({Chars(MinAccountLen - 1), Chars(MinAccountLen)}),
        name \in Optional({"", "X"})}

\* the native records of a bank
TxRecords ==
    {[transaction_id |-> "TXN001", amount |-> Str(100, FALSE, FALSE), type |-> "credit"],
     [transaction_id |-> "TXN002", amount |-> Str(-50, FALSE, FALSE), type |-> "debit"],
     [transaction_id |-> "TXN003", amount |-> Num(-10), type |-> "fee"],
     [transaction_id |-> "TXN004", amount |-> BadStr]}

\* the lists a bank returns for one account: up to MaxTx of the records,
\* each at most once, in the order of the statement
TxLists ==
    LET statement == CHOOSE l \in [1..Cardinality(TxRecords) -> TxRecords] :
                        \A i, j \in DOMAIN l : i # j => l[i] # l[j]
        taken[i \in 0..Len(statement), I \in SUBSET DOMAIN statement] ==
            IF i = 0 THEN <<>>
            ELSE IF i \in I THEN Append(taken[i - 1, I], statement[i])
            ELSE taken[i - 1, I]
    IN {taken[Len(statement), I] :
           I \in {J \in SUBSET DOMAIN statement : Cardinality(J) <= MaxTx}}

\* the lists returned to a batch operation: nothing, one credit, or one
\* record whose amount does not parse
BatchLists ==
    {<<>>} \cup {<<t>> : t \in {r \in TxRecords : "type" \notin DOMAIN r \/ r.type = "credit"}}

BalanceDicts ==
    {[current_balance |-> Str(2050, FALSE, FALSE)],
     [current_balance |-> Str(2050, TRUE, TRUE), available_balance |-> Num(2000)],
     [current_balance |-> BadStr]}

StatusDicts == {[status |-> "completed", amount |-> Str(100, FALSE, FALSE)]}

AccountLists == {<<>>, <<"A1">>, <<"A1", "A2">>, <<"A1", "A1">>}

\* what a plugin of a bank returns
BankShapes == {"dict_list", "dict_dict"}

\* the environments of the transaction syncs of a list of accounts, one
\* per account, each drawn for the connector as the call before left it
RECURSIVE TransactionEnvs(_, _, _)
TransactionEnvs(st, cls, account_numbers) ==
    IF account_numbers = <<>> THEN {<<>>}
    ELSE UNION {
           {<<x>> \o rest :
               rest \in TransactionEnvs(
                            SyncAccountTransactions(st, cls, Head(account_numbers),
                                                    "today-30", "today", x),
                            cls, Tail(account_numbers))} :
           x \in SyncEnvsOver(st.w.conn, BankShapes, BatchLists, StatusDicts)}

\* the same for the balance syncs
RECURSIVE BalanceEnvs(_, _, _)
BalanceEnvs(st, cls, account_numbers) ==
    IF account_numbers = <<>> THEN {<<>>}
    ELSE UNION {
           {<<x>> \o rest :
               rest \in BalanceEnvs(SyncAccountBalance(st, cls, Head(account_numbers), x),
                                    cls, Tail(account_numbers))} :
           x \in SyncEnvsOver(st.w.conn, BankShapes, {<<>>}, BalanceDicts)}

\* bank settings of a connector: none, a bank and a gateway, or a bank and
\* a gateway that is no string
BankSettings ==
    {EmptyDict,
     [bank_type |-> "RBC", payment_gateway |-> "Interac"],
     [bank_type |-> "td", payment_gateway |-> PyNone]}

\* the plugin classes of a bank: the full template and one without sync_data
BankPluginClasses == {PluginMethods, {"initialize", "cleanup", "send_data"}}

BankConfigs(kind) == {Merge(FullConfig(kind), b) : b \in BankSettings}

\* the data types mapped: the five the module names and three it does not
DataTypeWords ==
    {<<"accounts", "payable">>, <<"accounts", "receivable">>, <<"general", "ledger">>,
     <<"cost", "centers">>, <<"projects">>,
     <<"invoices">>, <<"purchase", "orders">>, <<"Projects">>}

\* the ERP types mapped: the three vendors as written and in another
\* letter case, the default, and a vendor the module does not know
ErpTypes == {"sap", "SAP", "postgresql_erp", "dynamics", "Dynamics", "generic", "oracle"}

\* the lists of data types synced: a mapped and an unmapped type, alone,
\* together and twice
DataTypeLists ==
    {<<>>, <<<<"accounts", "payable">>>>, <<<<"general", "ledger">>>>,
     <<<<"accounts", "payable">>, <<"general", "ledger">>>>,
     <<<<"general", "ledger">>, <<"general", "ledger">>>>}

\* the records an ERP hands back: none, one invoice, or one whose amount
\* is no number
ErpLists ==
    {<<>>,
     <<[BELNR |-> "5100001", WRBTR |-> Str(100, FALSE, FALSE)]>>,
     <<[BELNR |-> "5100002", WRBTR |-> BadStr]>>}

\* ERP settings of a connector: none, and the three vendors
ErpSettings ==
    {EmptyDict, [erp_type |-> "SAP"], [erp_type |-> "postgresql_erp"],
     [erp_type |-> "Dynamics"]}

ErpConfigs(kind) == {Merge(FullConfig(kind), e) : e \in ErpSettings}

\* the environments of the syncs of a list of data types, one per data
\* type, each drawn for the connector as the call before left it
RECURSIVE FinancialEnvs(_, _, _)
FinancialEnvs(st, cls, data_types) ==
    IF data_types = <<>> THEN {<<>>}
    ELSE UNION {
           {<<x>> \o rest :
               rest \in FinancialEnvs(
                            SyncFinancialType(st, cls, Head(data_types), EmptyDict, x),
                            cls, Tail(data_types))} :
           x \in SyncEnvsOver(st.w.conn, BankShapes, ErpLists, StatusDicts)}

\* ------------------------------------------------- actions of the module
BankCommit(op, args, k) ==
    /\ conn' = k.w.conn
    /\ handles' = k.w.handles
    /\ log' = k.w.log
    /\ bank' = [op |-> op, args |-> args, result |-> k.r, made |-> k.made,
                steps |-> k.steps]
    /\ calls' = calls + 1
    /\ UNCHANGED <<plugin_class, ret>>

\* most connector calls made before the module call
MaxSetup == 1

\* the connector calls that set the scene for the module call
Setup ==
    /\ bank.op = "none" /\ calls < MaxSetup
    /\ (Connect \/ Disconnect)

SyncBankTransactions ==
    /\ bank = NoBank
    /\ \E account_numbers \in AccountLists, date_from \in {PyNone} :
       \E xs \in TransactionEnvs(Start(World(conn, handles, log)), plugin_class,
                                 account_numbers) :
         BankCommit("sync_bank_transactions",
                    [account_numbers |-> account_numbers, date_from |-> date_from],
                    sync_bank_transactions(World(conn, handles, log), plugin_class,
                                           account_numbers, date_from, PyNone, xs))

SyncAccountBalances ==
    /\ bank = NoBank
    /\ \E account_numbers \in AccountLists :
       \E xs \in BalanceEnvs(Start(World(conn, handles, log)), plugin_class,
                             account_numbers) :
         BankCommit("sync_account_balances", [account_numbers |-> account_numbers],
                    sync_account_balances(World(conn, handles, log), plugin_class,
                                          account_numbers, xs))

InitiatePayment ==
    /\ bank = NoBank
    /\ \E payment_data \in BankPayments, x \in SendEnvs(conn) :
         BankCommit("initiate_payment", [payment_data |-> payment_data],
                    initiate_payment(World(conn, handles, log), plugin_class,
                                     payment_data, x))

CheckPaymentStatus ==
    /\ bank = NoBank
    /\ \E x \in SyncEnvsOver(conn, BankShapes, {<<>>}, StatusDicts) :
         BankCommit("check_payment_status", [payment_id |-> "PAY123"],
                    check_payment_status(World(conn, handles, log), plugin_class,
                                         "PAY123", x))

GenerateBankReconciliationReport ==
    /\ bank = NoBank
    /\ \E x1 \in SyncEnvsOver(conn, BankShapes, TxLists, StatusDicts) :
         LET first == SyncAccountTransactions(Start(World(conn, handles, log)),
                                              plugin_class, "A1",
                                              "2024-01-01", "2024-01-31", x1)
         IN \E x2 \in SyncEnvsOver(first.w.conn, BankShapes, {<<>>}, BalanceDicts) :
              BankCommit("generate_bank_reconciliation_report",
                         [account_number |-> "A1"],
                         generate_bank_reconciliation_report(
                             World(conn, handles, log), plugin_class, "A1",
                             "2024-01-01", "2024-01-31", <<x1, x2>>))

\* the ERP module built on the connector, before its call
NoErp == [op |-> "none", module |-> "erp"]

SyncFinancialData ==
    /\ bank = NoErp
    /\ \E data_types \in DataTypeLists :
       \E xs \in FinancialEnvs(Start(World(conn, handles, log)), plugin_class, data_types) :
         BankCommit("sync_financial_data", [data_types |-> data_types],
                    sync_financial_data(World(conn, handles, log), plugin_class,
                                        data_types, EmptyDict, xs))

\* a connector with a banking module built on it, or one with an ERP module
InitBank ==
    /\ \E kind \in Kinds :
         \/ bank = NoBank
            /\ \E config \in BankConfigs(kind) : conn = NewConnector(kind, config)
         \/ bank = NoErp
            /\ \E config \in ErpConfigs(kind) : conn = NewConnector(kind, config)
    /\ plugin_class \in (IF conn.kind = "Custom" THEN BankPluginClasses ELSE {{}})
    /\ handles = <<>>
    /\ log = <<>>
    /\ ret = [op |-> "init", args |-> NoArgs, result |-> [returned |-> TRUE], trace |-> <<>>]
    /\ calls = 0

NextBank ==
    \/ Setup
    \/ SyncBankTransactions
    \/ SyncAccountBalances
    \/ InitiatePayment
    \/ CheckPaymentStatus
    \/ GenerateBankReconciliationReport
    \/ SyncFinancialData

SpecBank == InitBank /\ [][NextBank]_vars

\* -------------------------------------------- the pure functions applied
PureInput(of, arg) == [op |-> "input", of |-> of, arg |-> arg]

ValidatePaymentData ==
    /\ bank.op = "input" /\ bank.of = "payment"
    /\ bank' = [op |-> "_validate_payment_data", arg |-> bank.arg,
                result |-> validate_payment_data(bank.arg)]
    /\ UNCHANGED <<conn, plugin_class, handles, log, ret, calls>>

ParseAmount ==
    /\ bank.op = "input" /\ bank.of = "amount"
    /\ bank' = [op |-> "_parse_amount", arg |-> bank.arg, result |-> parse_amount(bank.arg)]
    /\ UNCHANGED <<conn, plugin_class, handles, log, ret, calls>>

DetermineTransactionType ==
    /\ bank.op = "input" /\ bank.of = "transaction"
    /\ bank' = [op |-> "_determine_transaction_type", arg |-> bank.arg,
                result |-> determine_transaction_type(bank.arg)]
    /\ UNCHANGED <<conn, plugin_class, handles, log, ret, calls>>

MapDataTypeToErpEndpoint ==
    /\ bank.op = "input" /\ bank.of = "endpoint"
    /\ bank' = [op |-> "_map_data_type_to_erp_endpoint", arg |-> bank.arg,
                result |-> map_data_type_to_erp_endpoint(bank.arg.erp_type,
                                                         bank.arg.data_type)]
    /\ UNCHANGED <<conn, plugin_class, handles, log, ret, calls>>

\* the amounts parsed
Amounts ==
    {Num(-50), Num(0), Num(100), Dec(100), NoneAmount, BadStr}
    \cup {Str(v, sym, sep) : v \in {-50, 0, 1234}, sym \in BOOLEAN, sep \in BOOLEAN}

\* the native records typed
Transactions ==
    {[k \in (IF amount = <<>> THEN {} ELSE {"amount"})
            \cup (IF type = <<>> THEN {} ELSE {"type"}) |->
         IF k = "amount" THEN amount[1] ELSE type[1]] :
        amount \in Optional({Num(-50), Num(0), Num(100), Str(-50, FALSE, FALSE), BadStr}),
        type \in Optional({"credit", "debit", "CREDIT", "Debit", "fee", PyNone})}

InitPure ==
    /\ conn = NewConnector("Custom", FullConfig("Custom"))
    /\ plugin_class = PluginMethods
    /\ handles = <<>>
    /\ log = <<>>
    /\ ret = [op |-> "init", args |-> NoArgs, result |-> [returned |-> TRUE], trace |-> <<>>]
    /\ calls = 0
    /\ \/ \E p \in Payments : bank = PureInput("payment", p)
       \/ \E a \in Amounts : bank = PureInput("amount", a)
       \/ \E t \in Transactions : bank = PureInput("transaction", t)
       \/ \E erp_type \in ErpTypes, data_type \in DataTypeWords :
             bank = PureInput("endpoint", [erp_type |-> erp_type, data_type |-> data_type])

NextPure ==
    \/ ValidatePaymentData
    \/ ParseAmount
    \/ DetermineTransactionType
    \/ MapDataTypeToErpEndpoint

SpecPure == InitPure /\ [][NextPure]_vars

\* ------------------------------------------------- reading the last call
\* the handles the connector holds in its fields
Held(c) == {c.producer, c.consumer, c.connection, c.channel, c.plugin_instance} \ {0}

\* number of calls named `what` in a trace
RECURSIVE Count(_, _)
Count(trace, what) ==
    IF trace = <<>> THEN 0
    ELSE (IF Head(trace).what = what THEN 1 ELSE 0) + Count(Tail(trace), what)

\* the call `r` ran connect() (it was a connect call, or it connected
\* implicitly) and that connect returned `value`
RanConnect(r, value) ==
    \/ r.op = "connect" /\ r.result.returned = value
    \/ \E i \in DOMAIN r.trace : r.trace[i].what = "connect" /\ r.trace[i].ok = value

\* the log entries named `operation` among those appended after the first n
RECURSIVE EntriesOf(_, _, _)
EntriesOf(l, n, operation) ==
    IF Len(l) <= n THEN <<>>
    ELSE EntriesOf(SubSeq(l, 1, Len(l) - 1), n, operation)
         \o (IF l[Len(l)].operation = operation THEN <<l[Len(l)]>> ELSE <<>>)

\* a handle that was opened (a stomp connection that never connected and
\* a plugin instance that never initialized hold no resource) and that the
\* connector has a way to release
Releasable(h) ==
    /\ handles[h].live \/ handles[h].closes > 0
    /\ handles[h].what = "plugin" => "cleanup" \in plugin_class

\* ------------------------------------------------------------------ claims

\* C2: is_connected is true only if an earlier connect returned true and,
\* since then, no disconnect was called and no connect failed.  Stated per
\* step: after any call is_connected is true only if that call ran a
\* connect that returned true, or is_connected was true before the call and
\* the call neither was a disconnect nor ran a connect that failed.
C2_ConnectedOnlyBetweenConnectAndDisconnect ==
    [][conn'.is_connected =>
          \/ RanConnect(ret', TRUE)
          \/ (conn.is_connected /\ ret'.op # "disconnect" /\ ~RanConnect(ret', FALSE))]_vars

\* C3: after a disconnect that returned true, every transport handle or
\* plugin instance opened so far on a Kafka, RabbitMQ, ActiveMQ or Custom
\* connector has been closed exactly once.
C3_ReleasedExactlyOnce ==
    (ret.op = "disconnect" /\ ret.result.returned
        /\ conn.kind \in {"Kafka", "RabbitMQ", "ActiveMQ", "Custom"})
    => \A h \in DOMAIN handles : Releasable(h) => handles[h].closes = 1

\* C4: a connect on a message-broker connector that fails returns false,
\* logs exactly one entry, of status "error", leaves is_connected false and
\* holds no handle opened during the failed attempt.
C4_FailedConnectLeavesDisconnected ==
    [][(ret'.op = "connect" /\ conn.kind \in Brokers /\ ~ret'.result.returned) =>
          /\ Len(log') = Len(log) + 1
          /\ log'[Len(log')] = [operation |-> "connect", status |-> "error"]
          /\ ~conn'.is_connected
          /\ \A h \in (Len(handles) + 1)..Len(handles') : h \notin Held(conn')]_vars

\* C5: each sync_data or send_data call appends exactly one Operation Log
\* entry for that operation, whose status is the status the call returns
\* (the entry of an implicit connect is not counted).
C5_ExactlyOneLogEntryPerCall ==
    [][ret'.op \in {"sync_data", "send_data"} =>
          LET own == EntriesOf(log', Len(log), ret'.op)
          IN Len(own) = 1 /\ own[1].status = ret'.result.status]_vars

\* C6: last_sync changes only in a sync_data call that returns "success".
C6_LastSyncOnlyOnSuccessfulSync ==
    [][conn'.last_sync # conn.last_sync =>
          (ret'.op = "sync_data" /\ ret'.result.status = "success")]_vars

\* the protocol operations of which a call makes at most one attempt
ProtocolOps == {"poll", "publish", "plugin.sync_data", "plugin.send_data"}

\* C7: one sync_data or send_data call makes exactly one connect attempt
\* when is_connected is false at entry and none when it is true, at most
\* one attempt at the protocol operation, and after a call that failed
\* it makes no further call of the same kind.
C7_NoRetry ==
    [][ret'.op \in {"sync_data", "send_data"} =>
          /\ Count(ret'.trace, "connect") = (IF conn.is_connected THEN 0 ELSE 1)
          /\ \A what \in ProtocolOps : Count(ret'.trace, what) <= 1
          /\ \A i, j \in DOMAIN ret'.trace :
                (i < j /\ ~ret'.trace[i].ok) => ret'.trace[j].what # ret'.trace[i].what]_vars

\* C7 witness: a data call that started disconnected, whose implicit connect
\* failed, and that returned an error
C7_Witness ==
    /\ ret.op \in {"sync_data", "send_data"}
    /\ RanConnect(ret, FALSE)
    /\ ret.result.status = "error"

\* ------------------------------------------------- reading a module call
ModuleOps ==
    {"sync_bank_transactions", "sync_account_balances", "initiate_payment",
     "check_payment_status", "generate_bank_reconciliation_report"}

\* a transport, plugin or payload call of the trace raised
Failed(trace) == \E i \in DOMAIN trace : trace[i].what # "connect" /\ ~trace[i].ok

\* a result with status "error" and a message
IsError(result) ==
    /\ Get(result, "status", PyNone) = "error"
    /\ "message" \in DOMAIN result

\* the connector calls of the last module call during which something raised
FailedCalls == {i \in DOMAIN bank.made : Failed(bank.made[i].trace)}

\* the i-th connector call of a batch operation is the last one for its account
LastFor(i) ==
    \A j \in DOMAIN bank.made :
        j > i => bank.made[j].arg.account_number # bank.made[i].arg.account_number

Abs(n) == IF n < 0 THEN -n ELSE n

RECURSIVE Magnitudes(_)
Magnitudes(s) == IF s = <<>> THEN <<>> ELSE <<Abs(Head(s))>> \o Magnitudes(Tail(s))

\* C1: no exception escapes a public operation: a connect or disconnect
\* during which the transport or the plugin raised returns false; a
\* sync_data or send_data call during which something raised returns status
\* "error" and a message; a module operation always returns a result, with
\* status "error" and a message for the key or the call that failed.
C1_FailuresBecomeErrorResults ==
    /\ (ret.op \in {"connect", "disconnect"} /\ Failed(ret.trace)) => ~ret.result.returned
    /\ bank.op \in ModuleOps =>
         /\ \A i \in FailedCalls : IsError(bank.made[i].result)
         /\ bank.op \in {"sync_bank_transactions", "sync_account_balances"} =>
              /\ "results" \in DOMAIN bank.result
              /\ \A i \in FailedCalls :
                    LastFor(i) => IsError(bank.result.results[bank.made[i].arg.account_number])
         /\ bank.op \in {"initiate_payment", "check_payment_status"} =>
              /\ "status" \in DOMAIN bank.result
              /\ FailedCalls # {} => IsError(bank.result)
         /\ bank.op = "generate_bank_reconciliation_report" =>
              /\ "status" \in DOMAIN bank.result
              /\ 1 \in FailedCalls => IsError(bank.result)

\* C8: an initiate_payment whose payment fails validation returns status
\* "error", the message 'Payment validation failed' and the validator's
\* error list, does not transform the payment, makes no connector call and
\* leaves the Operation Log and the connector as they were.
C8_InvalidPaymentIsNeverSent ==
    [][(/\ bank'.op = "initiate_payment"
        /\ ~validate_payment_data(bank'.args.payment_data).raised
        /\ ~validate_payment_data(bank'.args.payment_data).value.valid) =>
          /\ bank'.result =
                [status |-> "error", message |-> "Payment validation failed",
                 errors |-> validate_payment_data(bank'.args.payment_data).value.errors]
          /\ bank'.steps = <<"validate">>
          /\ bank'.made = <<>>
          /\ log' = log
          /\ conn' = conn
          /\ handles' = handles]_vars

\* C8 witness: an initiate_payment of a payment with a negative amount and
\* no recipient account came back with the validation failure
C8_Witness ==
    /\ bank.op = "initiate_payment"
    /\ "recipient_account" \notin DOMAIN bank.args.payment_data
    /\ Get(bank.result, "message", PyNone) = "Payment validation failed"
    /\ Len(bank.result.errors) >= 2

\* the amount of a payment is a number greater than zero
PositiveAmount(payment_data) ==
    /\ "amount" \in DOMAIN payment_data
    /\ payment_data.amount.t \in {"num", "str", "dec"}
    /\ payment_data.amount.v > 0

\* C9: _validate_payment_data returns valid = true with no error exactly
\* when the amount is strictly positive, recipient_name is present and not
\* empty and recipient_account has at least 5 characters; otherwise it
\* returns valid = false with a non-empty list of pairwise distinct errors.
C9_ValidExactlyWhenWellFormed ==
    bank.op = "_validate_payment_data" =>
        LET payment_data == bank.arg
            well_formed ==
                /\ PositiveAmount(payment_data)
                /\ "recipient_name" \in DOMAIN payment_data
                /\ payment_data.recipient_name # ""
                /\ "recipient_account" \in DOMAIN payment_data
                /\ Len(payment_data.recipient_account) >= 5
        IN /\ ~bank.result.raised
           /\ bank.result.value.valid <=> well_formed
           /\ bank.result.value.valid <=> bank.result.value.errors = <<>>
           /\ \A i, j \in DOMAIN bank.result.value.errors :
                 i # j => bank.result.value.errors[i] # bank.result.value.errors[j]

\* C10: a reconciliation report made from a successful transaction sync and
\* a successful balance sync has total_transactions = the number of
\* transactions, total_credits = the sum of the credit amounts,
\* total_debits = the sum of the magnitudes of the debit amounts,
\* net_change = total_credits - total_debits, and current_balance = the
\* balance fetched.
C10_ReconciliationSummary ==
    (/\ bank.op = "generate_bank_reconciliation_report"
     /\ bank.result.status = "success"
     /\ Len(bank.made) = 2
     /\ ~IsError(bank.made[2].result)
     /\ DataIsDict(bank.made[2].result)
     /\ ~parse_amount(Get(bank.made[2].result.data, "current_balance", Num(0))).raised) =>
        LET summary == bank.result.summary
            transactions == bank.result.transactions
        IN /\ summary.total_transactions = Len(transactions)
           /\ summary.total_credits = SeqSum(AmountsOf(transactions, "credit"))
           /\ summary.total_debits = SeqSum(Magnitudes(AmountsOf(transactions, "debit")))
           /\ summary.net_change = summary.total_credits - summary.total_debits
           /\ summary.current_balance =
                 parse_amount(Get(bank.made[2].result.data, "current_balance", Num(0))).value

\* ------------------------------------------- reading validate_config
\* the required fields of the connector that its config does not carry, or
\* carries with an empty value
MissingOrEmpty(c) ==
    {f \in FieldSet(c.kind) : f \notin DOMAIN c.config \/ ~Truthy(c.config[f])}

\* C13: validate_config returns exactly one error string for each required
\* field that is absent from the config or present with an empty value, and
\* no other error (the empty config included: one error per required field).
C13_OneErrorPerMissingField ==
    ret.op = "validate_config" =>
        /\ Len(ret.result.errors) = Cardinality(MissingOrEmpty(conn))
        /\ \A i, j \in DOMAIN ret.result.errors :
              i # j => ret.result.errors[i] # ret.result.errors[j]

\* C14: validate_config and get_status change neither the connector's
\* fields (config, is_connected, last_sync, handles held) nor any handle nor
\* the log, and make no connect or transport call; get_status returns
\* connected = is_connected, last_sync = last_sync (None if never synced)
\* and config_valid = (validate_config returns no error).
C14_StatusCallsAreReadOnly ==
    [][ret'.op \in {"validate_config", "get_status"} =>
          /\ conn' = conn
          /\ handles' = handles
          /\ log' = log
          /\ ret'.trace = <<>>
          /\ ret'.op = "get_status" =>
                /\ ret'.result.connected = conn.is_connected
                /\ ret'.result.last_sync = conn.last_sync
                /\ ret'.result.config_valid = (validate_config(conn) = <<>>)]_vars

\* C14 witness: get_status on a connected connector that has synced and
\* whose config is valid
C14_Witness ==
    /\ ret.op = "get_status"
    /\ conn.is_connected
    /\ conn.last_sync # 0
    /\ ret.result.last_sync = conn.last_sync
    /\ ret.result.config_valid

\* C15: _determine_transaction_type returns the type field in lower case
\* when it is "credit" or "debit" in any letter case, whatever the amount
\* (missing and unparseable included); without a type field it returns
\* "credit" for an amount > 0 and "debit" for an amount <= 0.
C15_TypeFieldWinsElseSign ==
    bank.op = "_determine_transaction_type" =>
        LET transaction == bank.arg
            amount == Get(transaction, "amount", Num(0))
        IN /\ ("type" \in DOMAIN transaction
                  /\ transaction.type \in {"credit", "CREDIT", "Credit"}) =>
                 (~bank.result.raised /\ bank.result.value = "credit")
           /\ ("type" \in DOMAIN transaction
                  /\ transaction.type \in {"debit", "DEBIT", "Debit"}) =>
                 (~bank.result.raised /\ bank.result.value = "debit")
           /\ ("type" \notin DOMAIN transaction /\ amount.t \in {"num", "str", "dec"}) =>
                 /\ ~bank.result.raised
                 /\ bank.result.value = (IF amount.v > 0 THEN "credit" ELSE "debit")

\* the transaction types of a list of transformed transactions
TypesOf(transactions) ==
    {transactions[i].transaction_type : i \in DOMAIN transactions}

\* C16: every transaction returned by sync_bank_transactions, and every
\* transaction of a reconciliation report, has transaction_type "debit" or
\* "credit", whatever type the bank's record carried.
C16_TransactionTypeIsDebitOrCredit ==
    /\ bank.op = "sync_bank_transactions" =>
          \A key \in Succeeded(bank.result.results) :
              TypesOf(bank.result.results[key].transactions) \subseteq {"debit", "credit"}
    /\ (bank.op = "generate_bank_reconciliation_report"
           /\ bank.result.status = "success") =>
          TypesOf(bank.result.transactions) \subseteq {"debit", "credit"}

\* C17: _parse_amount never raises: a number, a numeric string (with or
\* without currency symbol and thousands separators) and a Decimal give
\* their value, and a string that is no number gives 0.
C17_ParseAmountIsTotal ==
    bank.op = "_parse_amount" =>
        /\ ~bank.result.raised
        /\ bank.arg.t \in {"num", "str", "dec"} => bank.result.value = bank.arg.v
        /\ bank.arg.t = "bad" => bank.result.value = 0

\* C20: on a Custom connector, a connect during which nothing raised and
\* whose plugin has no initialize to refuse returns true whatever the
\* plugin class offers; a sync_data (send_data) call on a connected
\* connector whose plugin class lacks sync_data (send_data) returns status
\* "error" with the message that the plugin does not implement the method,
\* and calls nothing on the plugin.
C20_MissingCapabilityIsAnErrorResult ==
    [][/\ (/\ ret'.op = "connect" /\ conn.kind = "Custom"
           /\ Truthy(Get(conn.config, "plugin_path", PyNone))
           /\ Truthy(Get(conn.config, "plugin_class", PyNone))
           /\ ~Failed(ret'.trace)
           /\ "initialize" \notin plugin_class) => ret'.result.returned
       /\ \A op \in {"sync_data", "send_data"} :
             (/\ ret'.op = op /\ conn.kind = "Custom"
              /\ conn.is_connected /\ conn.plugin_instance # 0
              /\ op \notin plugin_class) =>
                /\ ret'.result.status = "error"
                /\ ret'.result.message = "Plugin does not implement " \o op \o " method"
                /\ ret'.trace = <<>>]_vars

\* C20 witness: a sync_data call on a connected Custom connector whose
\* plugin class has send_data but no sync_data came back as an error
C20_Witness ==
    /\ ret.op = "sync_data" /\ conn.kind = "Custom"
    /\ conn.is_connected /\ conn.plugin_instance # 0
    /\ "sync_data" \notin plugin_class /\ "send_data" \in plugin_class
    /\ ret.trace = <<>>
    /\ ret.result.message = "Plugin does not implement sync_data method"

\* ------------------------------------------------ reading a batch call
BatchOps == {"sync_bank_transactions", "sync_account_balances", "sync_financial_data"}

\* the keys of the last batch call, in list order
BatchKeys ==
    IF bank.op = "sync_financial_data"
    THEN [i \in DOMAIN bank.args.data_types |-> Join(bank.args.data_types[i], "_")]
    ELSE bank.args.account_numbers

\* the i-th element is the last one of the list with its key
LastKey(i) == \A j \in DOMAIN BatchKeys : j > i => BatchKeys[j] # BatchKeys[i]

\* the sync of the i-th element succeeded: the connector returned status
\* "success" and nothing raised while its data was taken over
SyncSucceeded(i) ==
    /\ Get(bank.made[i].result, "status", PyNone) = "success"
    /\ CASE bank.op = "sync_bank_transactions" ->
                ~transform_bank_transactions(bank.made[i].result, BankType(conn)).raised
         [] bank.op = "sync_account_balances" ->
                /\ DataIsDict(bank.made[i].result)
                /\ ~parse_amount(Get(bank.made[i].result.data, "current_balance",
                                     Num(0))).raised
                /\ ~parse_amount(Get(bank.made[i].result.data, "available_balance",
                                     Num(0))).raised
         [] OTHER ->
                ~transform_erp_data(ErpType(conn), BatchKeys[i], bank.made[i].result).raised

\* C11: sync_bank_transactions over N account numbers and
\* sync_financial_data over N data types (duplicates included) return a
\* results map with exactly N keys, and total_accounts_synced
\* (total_synced) is the number M of syncs that succeeded.
C11_OneKeyPerElement ==
    bank.op \in {"sync_bank_transactions", "sync_financial_data"} =>
        /\ Cardinality(DOMAIN bank.result.results) = Len(BatchKeys)
        /\ (IF bank.op = "sync_financial_data"
            THEN bank.result.total_synced ELSE bank.result.total_accounts_synced)
              = Cardinality({i \in DOMAIN bank.made : SyncSucceeded(i)})

\* C12: a batch operation calls connector.sync_data exactly once per list
\* element, in list order, each call starting where the one before ended
\* (once a call has connected, no later call connects again); the outcome
\* of an element, error status and exception included, is recorded under
\* its key (the entry of a key is that of the last element carrying it),
\* and the elements after a failed one are processed all the same.
C12_BatchIsSequentialAndIsolated ==
    bank.op \in BatchOps =>
        /\ Len(bank.made) = Len(BatchKeys)
        /\ DOMAIN bank.result.results = {BatchKeys[i] : i \in DOMAIN BatchKeys}
        /\ \A i \in DOMAIN bank.made :
              /\ bank.made[i].op = "sync_data"
              /\ IF bank.op = "sync_financial_data"
                 THEN bank.made[i].data_type =
                          map_data_type_to_erp_endpoint(ErpType(conn), bank.args.data_types[i])
                 ELSE bank.made[i].arg.account_number = BatchKeys[i]
              /\ LastKey(i) =>
                    IF SyncSucceeded(i)
                    THEN bank.result.results[BatchKeys[i]].status = "success"
                    ELSE IsError(bank.result.results[BatchKeys[i]])
        /\ \A i, j \in DOMAIN bank.made :
              (i < j /\ \E e \in DOMAIN bank.made[i].trace :
                           bank.made[i].trace[e] = [what |-> "connect", ok |-> TRUE])
              => Count(bank.made[j].trace, "connect") = 0

\* C12 witness: a batch over two different keys whose first sync failed
\* and whose second sync succeeded
C12_Witness ==
    /\ bank.op \in BatchOps
    /\ Len(bank.made) = 2
    /\ BatchKeys[1] # BatchKeys[2]
    /\ ~SyncSucceeded(1) /\ SyncSucceeded(2)
    /\ IsError(bank.result.results[BatchKeys[1]])
    /\ bank.result.results[BatchKeys[2]].status = "success"

\* C18: _map_data_type_to_erp_endpoint returns, for the five known data
\* types under sap, postgresql_erp and dynamics (in any letter case), the
\* vendor's fixed endpoint; for any other data type the data type in upper
\* case (sap), 'api/v1/' plus the data type with '_' replaced by '/'
\* (postgresql_erp), or the data type itself (dynamics); and under any
\* other ERP type the data type with '_' replaced by '-'.
C18_EndpointMapping ==
    bank.op = "_map_data_type_to_erp_endpoint" =>
        LET erp_type == bank.arg.erp_type
            words == bank.arg.data_type
            key == Join(words, "_")
            known == key \in {"accounts_payable", "accounts_receivable", "general_ledger",
                              "cost_centers", "projects"}
            sap == [accounts_payable |-> "AP_INVOICE", accounts_receivable |-> "AR_INVOICE",
                    general_ledger |-> "GL_ACCOUNT", cost_centers |-> "COST_CENTER",
                    projects |-> "PROJECT_SYSTEM"]
            postgresql_erp ==
                   [accounts_payable |-> "api/v1/ap/invoices",
                    accounts_receivable |-> "api/v1/ar/invoices",
                    general_ledger |-> "api/v1/gl/journals",
                    cost_centers |-> "api/v1/gl/costcenters",
                    projects |-> "api/v1/pm/projects"]
            dynamics == [accounts_payable |-> "vendorInvoices",
                         accounts_receivable |-> "customerInvoices",
                         general_ledger |-> "generalLedgerEntries",
                         cost_centers |-> "dimensions", projects |-> "projects"]
        IN bank.result =
              CASE erp_type \in {"sap", "SAP"} ->
                       IF known THEN sap[key]
                       ELSE Join([i \in DOMAIN words |-> Upper(words[i])], "_")
                [] erp_type = "postgresql_erp" ->
                       IF known THEN postgresql_erp[key] ELSE "api/v1/" \o Join(words, "/")
                [] erp_type \in {"dynamics", "Dynamics"} ->
                       IF known THEN dynamics[key] ELSE key
                [] OTHER -> Join(words, "-")

\* C18 witness: a data type the module does not name, mapped under the
\* ERP type SAP written in capitals
C18_Witness ==
    /\ bank.op = "_map_data_type_to_erp_endpoint"
    /\ bank.arg = [erp_type |-> "SAP", data_type |-> <<"purchase", "orders">>]
    /\ bank.result = "PURCHASE_ORDERS"

\* C19: for a data type without field mapping (any data type under an ERP
\* type other than the three vendors; general_ledger, cost_centers and
\* projects under the three vendors) sync_financial_data returns, for a
\* sync the connector answered with "success" and a list of records, the
\* records the connector returned, unchanged, and a count equal to their
\* number.
C19_UnmappedTypesPassThrough ==
    bank.op = "sync_financial_data" =>
        \A i \in DOMAIN bank.made :
            (/\ LastKey(i)
             /\ Get(bank.made[i].result, "status", PyNone) = "success"
             /\ ~DataIsDict(bank.made[i].result)
             /\ \/ Lower(ErpType(conn)) \notin {"sap", "postgresql_erp", "dynamics"}
                \/ BatchKeys[i] \in {"general_ledger", "cost_centers", "projects"}) =>
                /\ bank.result.results[BatchKeys[i]].status = "success"
                /\ bank.result.results[BatchKeys[i]].count = Len(bank.made[i].result.data)
                /\ bank.result.results[BatchKeys[i]].data = bank.made[i].result.data

\* ------------------------------------------- reading a custom method call
\* the plugin calls of a trace: the capability methods and the custom method
PluginCalls(trace) ==
    {i \in DOMAIN trace :
        trace[i].what \in {"plugin.sync_data", "plugin.send_data", "plugin.get_metadata",
                           "plugin.non_existent_method"}}

\* C21: execute_custom_method(name, args) on a connector with a loaded
\* plugin: when the plugin has a method `name` the call invokes that method
\* exactly once, with exactly the positional and keyword arguments given,
\* and, when the method returns, returns status "success" with the method's
\* return value as result; when the plugin has no attribute `name` the call
\* returns status "error" and invokes nothing on the plugin.
C21_CustomMethodIsInvokedOnceWithItsArguments ==
    [][(/\ ret'.op = "execute_custom_method"
        /\ conn.is_connected /\ conn.plugin_instance # 0) =>
          LET name == ret'.args.method_name
              given == [args |-> ret'.args.args, kwargs |-> ret'.args.kwargs]
          IN /\ name \in plugin_class =>
                   /\ Len(ret'.trace) = 1
                   /\ ret'.trace[1].what = "plugin." \o name
                   /\ ret'.trace[1].arg = given
                   /\ ret'.trace[1].ok =>
                         /\ ret'.result.status = "success"
                         /\ ret'.result.result = MethodReturn(name, given)
             /\ name \notin plugin_class =>
                   /\ ret'.result.status = "error"
                   /\ ret'.trace = <<>>]_vars

\* C21 witness: on a connector whose plugin was loaded by an earlier call,
\* get_metadata was executed with a positional and a keyword argument and
\* its return value came back
C21_Witness ==
    /\ ret.op = "execute_custom_method"
    /\ ret.args.method_name = "get_metadata"
    /\ ret.args.args = <<"arg1">> /\ ret.args.kwargs = [key |-> "value"]
    /\ Count(ret.trace, "connect") = 0
    /\ conn.is_connected
    /\ ret.result.status = "success"
    /\ ret.result.result.given.kwargs = [key |-> "value"]

\* a plugin method called during the call raised
PluginRaised(trace) == \E i \in PluginCalls(trace) : ~trace[i].ok

\* the fields a plugin failure is not to touch
Loaded(c) ==
    [is_connected |-> c.is_connected, plugin_instance |-> c.plugin_instance,
     plugin_module |-> c.plugin_module]

\* C22 as stated: when the plugin's method raises inside sync_data,
\* send_data or execute_custom_method, the call returns status "error" and
\* leaves is_connected, plugin_instance, plugin_module, custom_handlers and
\* last_sync exactly as they were before the call.
C22_PluginFailureLeavesTheConnectorAsBeforeTheCall ==
    [][(/\ ret'.op \in {"sync_data", "send_data", "execute_custom_method"}
        /\ conn.kind = "Custom"
        /\ PluginRaised(ret'.trace)) =>
          /\ ret'.result.status = "error"
          /\ Loaded(conn') = Loaded(conn)
          /\ conn'.custom_handlers = conn.custom_handlers
          /\ conn'.last_sync = conn.last_sync]_vars

\* C22 amended: when the plugin's method raises inside sync_data, send_data
\* or execute_custom_method, the call returns status "error" and leaves
\* custom_handlers and last_sync as they were before the call, and
\* is_connected, plugin_instance and plugin_module as they were when the
\* method was invoked: as before the call when the call made no implicit
\* connect, and as that connect left them when it made one.
C22_PluginFailureChangesNothingAfterTheImplicitConnect ==
    [][(/\ ret'.op \in {"sync_data", "send_data", "execute_custom_method"}
        /\ conn.kind = "Custom"
        /\ PluginRaised(ret'.trace)) =>
          /\ ret'.result.status = "error"
          /\ conn'.custom_handlers = conn.custom_handlers
          /\ conn'.last_sync = conn.last_sync
          /\ Count(ret'.trace, "connect") = 0 => Loaded(conn') = Loaded(conn)
          /\ Count(ret'.trace, "connect") # 0 =>
                \E fail \in ConnectFails("Custom") :
                    Loaded(conn') =
                        Loaded(CustomConnect(World(conn, handles, log),
                                             plugin_class, fail).w.conn)]_vars

\* C22 witness: a custom method raised on a connector whose plugin an
\* earlier call had loaded; the call returned an error and the connector is
\* still connected to its plugin instance
C22_Witness ==
    /\ ret.op = "execute_custom_method"
    /\ PluginRaised(ret.trace)
    /\ Count(ret.trace, "connect") = 0
    /\ ret.result.status = "error"
    /\ conn.is_connected /\ conn.plugin_instance # 0

\* ------------------------------------------- reading the event registry
\* C23: trigger_custom_event(e, d) invokes exactly the handler registered
\* for e, once, with d, and returns status "success" with its return value
\* when the handler returns; with no handler registered for e it returns
\* status "error" and invokes nothing.  register_custom_handler(e, h) makes
\* h the handler of e and leaves the handlers of the other events alone, and
\* no other operation changes the registry (so the handler of e is the one
\* most recently registered for it, whatever connect, disconnect, sync_data
\* or send_data came in between).  Neither operation calls connect or
\* changes is_connected, plugin_instance or last_sync.
C23_EventRegistryIsIndependentOfTheConnection ==
    [][/\ ret'.op = "trigger_custom_event" =>
             LET e == ret'.args.event_type
             IN /\ conn' = conn
                /\ handles' = handles
                /\ e \in DOMAIN conn.custom_handlers =>
                      /\ Len(ret'.trace) = 1
                      /\ ret'.trace[1].what = conn.custom_handlers[e]
                      /\ ret'.trace[1].arg = ret'.args.event_data
                      /\ ret'.trace[1].ok =>
                            /\ ret'.result.status = "success"
                            /\ ret'.result.result =
                                  "result of " \o conn.custom_handlers[e]
                /\ e \notin DOMAIN conn.custom_handlers =>
                      /\ ret'.result.status = "error"
                      /\ ret'.trace = <<>>
       /\ ret'.op = "register_custom_handler" =>
             /\ ret'.trace = <<>>
             /\ handles' = handles
             /\ conn'.is_connected = conn.is_connected
             /\ conn'.plugin_instance = conn.plugin_instance
             /\ conn'.last_sync = conn.last_sync
             /\ DOMAIN conn'.custom_handlers =
                   DOMAIN conn.custom_handlers \cup {ret'.args.event_type}
             /\ \A e \in DOMAIN conn'.custom_handlers :
                   conn'.custom_handlers[e] =
                       IF e = ret'.args.event_type THEN ret'.args.handler_func
                       ELSE conn.custom_handlers[e]
       /\ ret'.op # "register_custom_handler" =>
             conn'.custom_handlers = conn.custom_handlers]_vars

\* C23 witness: on a connector that never connected, a second handler was
\* registered for an event that had one, and the event, triggered, came
\* back with the result of the second handler
C23_Witness ==
    /\ ret.op = "trigger_custom_event"
    /\ ret.result.status = "success"
    /\ ret.result.result = "result of handler2"
    /\ ret.trace = <<[what |-> "handler2", ok |-> TRUE, arg |-> ret.args.event_data]>>
    /\ Len(EntriesOf(log, 0, "register_handler")) = 2
    /\ ~conn.is_connected /\ conn.plugin_instance = 0

\* ------------------------------------------------ reading a broker sync
\* the arguments of the calls named `what` in a trace, in order
RECURSIVE ArgsOf(_, _)
ArgsOf(trace, what) ==
    IF trace = <<>> THEN <<>>
    ELSE (IF Head(trace).what = what THEN <<Head(trace).arg>> ELSE <<>>)
         \o ArgsOf(Tail(trace), what)

DestinationOf(kind, data, data_type) ==
    CASE kind = "Kafka"    -> Get(data, "topic", data_type)
      [] kind = "RabbitMQ" -> Get(data, "routing_key", Get(data, "queue", data_type))
      [] OTHER             -> Get(data, "destination", "/queue/" \o data_type)

\* the coordinates a successful send reports, by broker
Coordinates(kind) ==
    CASE kind = "Kafka"    -> {"topic", "partition", "offset"}
      [] kind = "RabbitMQ" -> {"queue", "exchange", "routing_key"}
      [] OTHER             -> {"destination"}

\* C25: for each broker variant, a send_data call on a connected connector
\* during which no call to the broker failed publishes exactly one message,
\* to the destination named in the payload or else derived from data_type,
\* and returns status "success" with details carrying the destination
\* coordinates.
C25_SendPublishesOneMessage ==
    [][(/\ ret'.op = "send_data" /\ conn.kind \in Brokers
        /\ conn.is_connected
        /\ \A i \in DOMAIN ret'.trace : ret'.trace[i].ok) =>
          /\ ArgsOf(ret'.trace, "publish") =
                <<DestinationOf(conn.kind, ret'.args.data, ret'.args.data_type)>>
          /\ ret'.result.status = "success"
          /\ Coordinates(conn.kind) \subseteq DOMAIN ret'.result.details]_vars

\* --------------------------------------------- reading the connected flag
\* C26: whenever sync_data or send_data of any connector returns status
\* "success", is_connected is true at return; and a call whose implicit
\* connect failed returns status "error" and leaves last_sync unchanged.
C26_NoSuccessWhileDisconnected ==
    [][ret'.op \in {"sync_data", "send_data"} =>
          /\ ret'.result.status = "success" => conn'.is_connected
          /\ RanConnect(ret', FALSE) =>
                /\ ret'.result.status = "error"
                /\ conn'.last_sync = conn.last_sync]_vars

\* C27: on a Custom connector plugin_instance is null after a connect that
\* failed and is non-null only while is_connected is true, and sync_data,
\* send_data and custom methods are invoked only on a plugin instance that
\* has been initialized.
C27_PluginInstanceOnlyWhileConnected ==
    [][conn.kind = "Custom" =>
          /\ RanConnect(ret', FALSE) => conn'.plugin_instance = 0
          /\ conn'.plugin_instance # 0 => conn'.is_connected
          /\ PluginCalls(ret'.trace) # {} =>
                /\ conn'.plugin_instance # 0
                /\ handles'[conn'.plugin_instance].live]_vars

\* C28: KafkaConnector.sync_data subscribes to, and RabbitMQConnector
\* .sync_data declares and reads, the topic (queue) named in filters when
\* filters has that key, and data_type in every other case: filters absent
\* or empty, and filters non-empty without the key.
C28_SourceIsFiltersKeyElseDataType ==
    [][(ret'.op = "sync_data" /\ conn.kind \in {"Kafka", "RabbitMQ"}) =>
          LET key == IF conn.kind = "Kafka" THEN "topic" ELSE "queue"
              what == IF conn.kind = "Kafka" THEN "subscribe" ELSE "queue_declare"
              source == IF key \in DOMAIN ret'.args.filters
                        THEN ret'.args.filters[key] ELSE ret'.args.data_type
              read == ArgsOf(ret'.trace, what)
          IN /\ \A i \in DOMAIN read : read[i] = source
             /\ ret'.result.status = "success" =>
                   /\ Len(read) = 1
                   /\ ret'.result[key] = source]_vars

\* C29: every sync_data result with status "success", from every connector,
\* has count equal to the number of records in data; for CustomConnector
\* both when the plugin returns a dict with a 'data' list and when it
\* returns a bare list.
C29_CountIsTheNumberOfRecords ==
    (ret.op = "sync_data" /\ ret.result.status = "success") =>
        ret.result.count = PyLen(ret.result.data)

\* ------------------------------------------- reading a reconciliation
\* the transaction sync of a report succeeded: the connector returned
\* "success" and every record could be transformed
TransactionsFetched(made) ==
    /\ Get(made.result, "status", PyNone) = "success"
    /\ ~transform_bank_transactions(made.result, BankType(conn)).raised

\* the balance sync of a report succeeded: the connector returned "success"
\* with a dict whose balances parse
BalanceFetched(made) ==
    /\ Get(made.result, "status", PyNone) = "success"
    /\ DataIsDict(made.result)
    /\ ~parse_amount(Get(made.result.data, "current_balance", Num(0))).raised
    /\ ~parse_amount(Get(made.result.data, "available_balance", Num(0))).raised

\* C30: generate_bank_reconciliation_report syncs the transactions first;
\* if that sync fails it returns status "error" and never fetches the
\* balance; if it succeeds the report fetches the balance next and returns
\* status "success", and when the balance sync fails current_balance is
\* reported as 0 with the transaction totals as the transactions give them.
C30_ReportNeedsTransactionsNotBalance ==
    bank.op = "generate_bank_reconciliation_report" =>
        /\ Len(bank.made) >= 1
        /\ bank.made[1].data_type = "transactions"
        /\ ~TransactionsFetched(bank.made[1]) =>
              /\ bank.result.status = "error"
              /\ Len(bank.made) = 1
        /\ TransactionsFetched(bank.made[1]) =>
              /\ Len(bank.made) = 2
              /\ bank.made[2].data_type = "balance"
              /\ bank.result.status = "success"
              /\ ~BalanceFetched(bank.made[2]) =>
                    LET summary == bank.result.summary
                        transactions == bank.result.transactions
                    IN /\ summary.current_balance = 0
                       /\ transactions =
                             transform_bank_transactions(bank.made[1].result,
                                                         BankType(conn)).value
                       /\ summary.total_transactions = Len(transactions)
                       /\ summary.total_credits =
                             SeqSum(AmountsOf(transactions, "credit"))
                       /\ summary.total_debits =
                             SeqSum(AmountsOf(transactions, "debit"))
                       /\ summary.net_change =
                             summary.total_credits - summary.total_debits

\* C30 witness: a report whose transaction sync brought a credit and whose
\* balance sync failed came back with status "success", the credit in its
\* totals and a balance of 0
C30_Witness ==
    /\ bank.op = "generate_bank_reconciliation_report"
    /\ Len(bank.made) = 2
    /\ ~BalanceFetched(bank.made[2])
    /\ bank.result.status = "success"
    /\ bank.result.summary.total_credits > 0
    /\ bank.result.summary.current_balance = 0

====
